---- MODULE Spec2Model ----
(***************************************************************************)
(* Model of the rfesi session / request core (src/src/client.rs):          *)
(* the Esi struct, its error-limit tracker, the token state and the        *)
(* asynchronous operations update_spec, authenticate, refresh_access_token *)
(* and query.  Every operation is split at its network suspension points:  *)
(* the step that runs up to `.send().await` and the step that runs from    *)
(* the arrival of the response to the return of the operation.             *)
(***************************************************************************)
EXTENDS Integers, Sequences, FiniteSets, TLC

(***************************************************************************)
(* Bounds of the model.                                                    *)
(***************************************************************************)
\* last instant (ms since the epoch) the modelled clock reaches
MaxNow == 2000
\* the instant (ms since the epoch) at which tokens are validated
JwtClock == 100000
\* the clock advances in steps of this many milliseconds
TickMillis == 1000
\* access_expiration a builder may seed (ms since the epoch)
SeedExpiry == 1000

(***************************************************************************)
(* SystemTime::now() may lie before UNIX_EPOCH (duration_since then fails): *)
(* the modelled clock may start one tick before the epoch.                 *)
(***************************************************************************)
PreEpoch == 0 - TickMillis

(***************************************************************************)
(* Option<T>: None is the empty sequence, Some(x) the one-element one.     *)
(***************************************************************************)
None == << >>
Some(x) == << x >>
IsSome(o) == o # None
IsNone(o) == o = None
Unwrap(o) == o[1]

\* the concurrently running callers of one session
Tasks == {"t1", "t2"}
\* `&mut self` operations never overlap anything, so which caller runs them
\* makes no difference: they are all run by one caller
Mutators == {"t1"}

(***************************************************************************)
(* Values the environment supplies.                                        *)
(***************************************************************************)
\* seconds to milliseconds, `* 1000` / `* 1_000` in the source
MillisPerSec == 1000

\* decimal header strings and the integer `str::parse` yields for them;
\* every other string is a parse error
DecimalValue == [s \in {"-1", "0", "2", "100"} |->
                   CASE s = "-1" -> -1 [] s = "0" -> 0 [] s = "2" -> 2 [] s = "100" -> 100]
ParseOk(s) == s \in DOMAIN DecimalValue
ParseInt(s) == DecimalValue[s]

\* the two rate-limit headers of a response (x-esi-error-limit-remain and
\* x-esi-error-limit-reset): each absent, unparsable or a decimal number
Headers(remain, reset) == [remain |-> remain, reset |-> reset]
HeaderMaps == { Headers(None, None), Headers(Some("0"), None), Headers(None, Some("2")),
                Headers(Some("0"), Some("2")), Headers(Some("100"), Some("2")),
                Headers(Some("-1"), Some("0")),
                Headers(Some("x"), Some("2")), Headers(Some("0"), Some("x")) }
NoHeaders == [remain |-> None, reset |-> None]

\* HTTP statuses a server answers with
Statuses == {200, 204, 420}
is_success(status) == status >= 200 /\ status < 300

\* JSON bodies of the token endpoint: each field is present or absent/null
EmptyBody == [access_token |-> None, expires_in |-> None, refresh_token |-> None]
TokenBodies == { [access_token |-> Some("at1"), expires_in |-> Some(1), refresh_token |-> Some("rt1")],
                 [access_token |-> Some("at1"), expires_in |-> Some(1), refresh_token |-> None],
                 EmptyBody }
(***************************************************************************)
(* Specification documents (serde_json::Value).  A document is what        *)
(* get_endpoint_for_op_id reads of it: `paths` (None when the key is       *)
(* missing or no object), the path entries in the iteration order of the   *)
(* map, each with its path string (a sequence of characters) and its       *)
(* methods (None when the entry is no object), each method with its        *)
(* operationId (None when missing or no string).                           *)
(***************************************************************************)
Method(operation_id) == [operationId |-> operation_id]
PathEntry(path, obj) == [path |-> path, obj |-> obj]
Document(paths) == [paths |-> paths]

PathA == << "/", "a", "/", "{id}" >>
PathB == << "/", "b" >>
\* well-formed, two operations
DocAB == Document(Some(<< PathEntry(PathA, Some(<< Method(Some("op_a")) >>)),
                          PathEntry(PathB, Some(<< Method(None), Method(Some("op_b")) >>)) >>))
\* well-formed, the same operation id under two paths
DocDup == Document(Some(<< PathEntry(PathA, Some(<< Method(Some("op_b")) >>)),
                           PathEntry(PathB, Some(<< Method(Some("op_b")) >>)) >>))
\* well-formed, no paths
DocEmpty == Document(Some(<< >>))
\* `paths` missing or not an object
DocNoPaths == Document(None)
\* a path entry that is no object, before / after the entry of an operation
DocBadFirst == Document(Some(<< PathEntry(PathA, None),
                                PathEntry(PathB, Some(<< Method(Some("op_b")) >>)) >>))
DocBadLast == Document(Some(<< PathEntry(PathA, Some(<< Method(Some("op_a")) >>)),
                               PathEntry(PathB, None) >>))
Docs == {DocAB, DocDup, DocEmpty, DocNoPaths, DocBadFirst, DocBadLast}
\* operation ids a caller asks for
OpIds == {"op_a", "op_b", "missing_op"}

\* bodies of the API and of the specification endpoint (None: not JSON)
ApiBodies == {"json", "garbage"}
SpecBodies == {Some(DocAB), None}
DocBodies == {Some(d) : d \in Docs} \cup {None}

\* what the key discovery document and the key set plus the token turn out to be
KeysUrlBodies == {"jwks_uri", "no_jwks_uri", "garbage"}
JwksBodies == {"valid", "garbage", "no_keys_array", "no_rs256", "bad_signature", "bad_issuer"}

\* HTTP method strings handed to query; "" is not a valid method
Methods == {"GET", ""}
RequestTypes == {"Public", "Authenticated"}

\* refresh tokens a caller hands to refresh_access_token
RefreshArgs == {None, Some("rtX")}
\* PKCE verifiers a caller hands to authenticate
VerifierArgs == {None, Some("verifier")}

(***************************************************************************)
(* Configurations EsiBuilder can produce (user_agent always set).          *)
(***************************************************************************)
Config(id, secret, cb, app) ==
  [client_id |-> id, client_secret |-> secret, callback_url |-> cb, application_auth |-> app]
Configs == { Config(Some("id"), Some("secret"), Some("cb"), FALSE),
             Config(Some("id"), None, Some("cb"), TRUE),
             Config(None, None, None, FALSE),
             Config(None, None, Some("cb"), TRUE),
             Config(Some("id"), Some("secret"), Some("cb"), TRUE) }
\* every combination of the four settings check_client_info reads
AllConfigs == { Config(id, secret, cb, app) :
                  id \in {None, Some("id")}, secret \in {None, Some("secret")},
                  cb \in {None, Some("cb")}, app \in BOOLEAN }
Tokens(at, exp, rt) == [access_token |-> at, access_expiration |-> exp, refresh_token |-> rt]
SeedTokens == { Tokens(None, None, None), Tokens(Some("at0"), Some(SeedExpiry), Some("rt0")),
                Tokens(Some("at0"), None, None), Tokens(None, None, Some("rt0")) }

VARIABLES
  esi,                \* the fields of the Esi struct
  error_limit_state,  \* Arc<RwLock<Option<ErrorLimitState>>>
  features,           \* cargo features the crate is built with
  now,                \* the system clock, in ms relative to the epoch
  task,               \* per caller: position in its operation and its locals
  ret,                \* the value an operation has just returned to its caller
  other               \* a second Esi instance: how it came about, its own tracker

vars == << esi, error_limit_state, features, now, task, ret, other >>


(***************************************************************************)
(* Pure helpers of client.rs.                                              *)
(***************************************************************************)
\* current_time_millis: Err(Timestamp) while the clock is before the epoch
current_time_millis(t) ==
  IF t < 0 THEN [ok |-> FALSE, v |-> 0] ELSE [ok |-> TRUE, v |-> t]

\* struct ErrorLimitState; resets_in is the local of process_error_limit_headers
\* the expiry was computed from, kept as history for the properties
ErrorLimitState(remaining, expires, resets_in) ==
  [remaining_limit |-> remaining, expires_at_millis |-> expires, resets_in |-> resets_in]

\* is_error_limited that keeps a limit until another response lifts it
is_error_limited_forever(state, t) ==
  IF IsNone(state) THEN [status |-> "NotLimited", for_millis |-> 0]
  ELSE IF Unwrap(state).remaining_limit > 0 THEN [status |-> "NotLimited", for_millis |-> 0]
  ELSE IF ~current_time_millis(t).ok THEN [status |-> "Timestamp", for_millis |-> 0]
  ELSE [status |-> "Limited", for_millis |-> 0]

\* is_error_limited with the expiry test off by one (`<= 0` for `< 0`)
is_error_limited_strict(state, t) ==
  IF IsNone(state) THEN [status |-> "NotLimited", for_millis |-> 0]
  ELSE IF Unwrap(state).remaining_limit > 0 THEN [status |-> "NotLimited", for_millis |-> 0]
  ELSE IF ~current_time_millis(t).ok THEN [status |-> "Timestamp", for_millis |-> 0]
  ELSE LET remaining_time == Unwrap(state).expires_at_millis - current_time_millis(t).v IN
       IF remaining_time <= 0 THEN [status |-> "NotLimited", for_millis |-> 0]
       ELSE [status |-> "Limited", for_millis |-> remaining_time]

\* Esi::is_error_limited on the stored state `state`, read at clock `t`
is_error_limited(state, t) ==
  IF IsNone(state) THEN [status |-> "NotLimited", for_millis |-> 0]
  ELSE IF Unwrap(state).remaining_limit > 0 THEN [status |-> "NotLimited", for_millis |-> 0]
  ELSE IF ~current_time_millis(t).ok THEN [status |-> "Timestamp", for_millis |-> 0]
  ELSE LET remaining_time == Unwrap(state).expires_at_millis - current_time_millis(t).v IN
       IF remaining_time < 0 THEN [status |-> "NotLimited", for_millis |-> 0]
       ELSE [status |-> "Limited", for_millis |-> remaining_time]

\* assert_not_error_limited that lets every call through
assert_not_error_limited_open(state, t) ==
  [out |-> "Ok", val |-> None]

\* Esi::assert_not_error_limited: the gate in front of every operation
assert_not_error_limited(state, t) ==
  LET r == is_error_limited(state, t) IN
  CASE r.status = "Limited" -> [out |-> "ErrorLimited", val |-> Some(r.for_millis)]
    [] r.status = "NotLimited" -> [out |-> "Ok", val |-> None]
    [] OTHER -> [out |-> r.status, val |-> None]

\* a header value with a byte that is no visible ASCII, as a server may send
OpaqueValue == "<0x80>"
\* HeaderValue::to_str: Ok for visible ASCII only
to_str(value) == value # OpaqueValue

\* process_error_limit_headers that stores the remaining count as soon as it
\* has parsed it
process_error_limit_headers_half(state, headers, t) ==
  IF IsSome(headers.remain) /\ IsSome(headers.reset)
  THEN IF ~to_str(Unwrap(headers.remain))
       THEN [out |-> "HeaderReadError", val |-> None, state |-> state]
       ELSE IF ~ParseOk(Unwrap(headers.remain))
       THEN [out |-> "HeaderParseError", val |-> Some("x-esi-error-limit-remain"), state |-> state]
       ELSE IF ~to_str(Unwrap(headers.reset))
       THEN [out |-> "HeaderReadError", val |-> None,
             state |-> Some(ErrorLimitState(ParseInt(Unwrap(headers.remain)), 0, 0))]
       ELSE IF ~ParseOk(Unwrap(headers.reset))
       THEN [out |-> "HeaderParseError", val |-> Some("x-esi-error-limit-reset"),
             state |-> Some(ErrorLimitState(ParseInt(Unwrap(headers.remain)), 0, 0))]
       ELSE IF ~current_time_millis(t).ok
       THEN [out |-> "Timestamp", val |-> None, state |-> state]
       ELSE [out |-> "Ok", val |-> None,
             state |-> Some(ErrorLimitState(ParseInt(Unwrap(headers.remain)),
                         current_time_millis(t).v + ParseInt(Unwrap(headers.reset)) * MillisPerSec,
                         ParseInt(Unwrap(headers.reset))))]
  ELSE [out |-> "Ok", val |-> None, state |-> state]

\* process_error_limit_headers that writes the two fields separately and
\* keeps the expiry of a state that is already stored
process_error_limit_headers_torn(state, headers, t) ==
  IF IsSome(headers.remain) /\ IsSome(headers.reset)
  THEN IF ~to_str(Unwrap(headers.remain))
       THEN [out |-> "HeaderReadError", val |-> None, state |-> state]
       ELSE IF ~ParseOk(Unwrap(headers.remain))
       THEN [out |-> "HeaderParseError", val |-> Some("x-esi-error-limit-remain"), state |-> state]
       ELSE IF ~to_str(Unwrap(headers.reset))
       THEN [out |-> "HeaderReadError", val |-> None, state |-> state]
       ELSE IF ~ParseOk(Unwrap(headers.reset))
       THEN [out |-> "HeaderParseError", val |-> Some("x-esi-error-limit-reset"), state |-> state]
       ELSE IF ~current_time_millis(t).ok
       THEN [out |-> "Timestamp", val |-> None, state |-> state]
       ELSE [out |-> "Ok", val |-> None,
             state |-> Some(ErrorLimitState(ParseInt(Unwrap(headers.remain)),
                         IF IsSome(state) THEN Unwrap(state).expires_at_millis
                         ELSE current_time_millis(t).v
                                + ParseInt(Unwrap(headers.reset)) * MillisPerSec,
                         ParseInt(Unwrap(headers.reset))))]
  ELSE [out |-> "Ok", val |-> None, state |-> state]

\* Esi::process_error_limit_headers: the new tracker state and the result
process_error_limit_headers(state, headers, t) ==
  IF IsSome(headers.remain) /\ IsSome(headers.reset)
  THEN IF ~to_str(Unwrap(headers.remain))
       THEN [out |-> "HeaderReadError", val |-> None, state |-> state]
       ELSE IF ~ParseOk(Unwrap(headers.remain))
       THEN [out |-> "HeaderParseError", val |-> Some("x-esi-error-limit-remain"), state |-> state]
       ELSE IF ~to_str(Unwrap(headers.reset))
       THEN [out |-> "HeaderReadError", val |-> None, state |-> state]
       ELSE IF ~ParseOk(Unwrap(headers.reset))
       THEN [out |-> "HeaderParseError", val |-> Some("x-esi-error-limit-reset"), state |-> state]
       ELSE IF ~current_time_millis(t).ok
       THEN [out |-> "Timestamp", val |-> None, state |-> state]
       ELSE [out |-> "Ok", val |-> None,
             state |-> Some(ErrorLimitState(ParseInt(Unwrap(headers.remain)),
                         current_time_millis(t).v + ParseInt(Unwrap(headers.reset)) * MillisPerSec,
                         ParseInt(Unwrap(headers.reset))))]
  ELSE [out |-> "Ok", val |-> None, state |-> state]

\* check_client_info that accepts a client secret together with PKCE mode
check_client_info_both(e) ==
  IF IsNone(e.client_id) THEN [out |-> "EmptyClientValue", val |-> Some("client_id")]
  ELSE IF IsNone(e.callback_url) THEN [out |-> "EmptyClientValue", val |-> Some("callback_url")]
  ELSE IF IsNone(e.client_secret)
       THEN IF ~e.application_auth
            THEN [out |-> "MissingAuthenticationFlowInformation", val |-> None]
            ELSE [out |-> "Ok", val |-> None]
       ELSE [out |-> "Ok", val |-> None]

\* Esi::check_client_info
check_client_info(e) ==
  IF IsNone(e.client_id) THEN [out |-> "EmptyClientValue", val |-> Some("client_id")]
  ELSE IF IsNone(e.callback_url) THEN [out |-> "EmptyClientValue", val |-> Some("callback_url")]
  ELSE IF IsNone(e.client_secret)
       THEN IF ~e.application_auth
            THEN [out |-> "MissingAuthenticationFlowInformation", val |-> None]
            ELSE [out |-> "Ok", val |-> None]
       ELSE IF e.application_auth
            THEN [out |-> "MissingAuthenticationFlowInformation", val |-> None]
            ELSE [out |-> "Ok", val |-> None]

\* get_auth_headers without the client-info check
get_auth_headers_unchecked(e) ==
  [out |-> "Ok", val |-> None,
   authorization |-> IF IsSome(e.client_secret) /\ IsSome(e.client_id)
                     THEN Some(<<"Basic", Unwrap(e.client_id), Unwrap(e.client_secret)>>)
                     ELSE None]

\* Esi::get_auth_headers: the Authorization header of a token request
get_auth_headers(e) ==
  LET c == check_client_info(e) IN
  IF c.out # "Ok" THEN [out |-> c.out, val |-> c.val, authorization |-> None]
  ELSE [out |-> "Ok", val |-> None,
        authorization |-> IF IsSome(e.client_secret)
                          THEN Some(<<"Basic", Unwrap(e.client_id), Unwrap(e.client_secret)>>)
                          ELSE None]

\* pkce::generate: a random verifier and its challenge, base64url(sha256(verifier))
PkceVerifiers == {"verifier1", "verifier2"}
S256(verifier) == CASE verifier = "verifier1" -> "challenge1"
                    [] verifier = "verifier2" -> "challenge2"
generate(verifier) == [challenge |-> S256(verifier), verifier |-> verifier]

(***************************************************************************)
(* pkce::generate in full.  Bytes are numbers 0..255, a string is the      *)
(* sequence of its ASCII codes (its bytes).  generate above is this        *)
(* function with the verifier and the challenge as opaque values.          *)
(***************************************************************************)
\* line 17: the number of random bytes
VerifierBytes == 32
\* what `random()` may yield for the 32 bytes
RandomBytes ==
  { [i \in 1..VerifierBytes |-> (a * i + b) % 256] :
      a \in 0..7, b \in {0, 1, 3, 62, 63, 64, 127, 128, 191, 192, 250, 251, 252, 253, 254, 255} }

\* the URL_SAFE alphabet: the ASCII code of the character for a 6-bit value
Base64UrlChar(v) ==
  IF v < 26 THEN 65 + v
  ELSE IF v < 52 THEN 97 + (v - 26)
  ELSE IF v < 62 THEN 48 + (v - 52)
  ELSE IF v = 62 THEN 45
  ELSE 95

\* URL_SAFE_NO_PAD.encode_slice: three bytes give four characters, a rest
\* of one byte two and of two bytes three, no padding
RECURSIVE encode_slice(_)
encode_slice(bytes) ==
  IF Len(bytes) = 0 THEN << >>
  ELSE IF Len(bytes) = 1
  THEN << Base64UrlChar(bytes[1] \div 4), Base64UrlChar((bytes[1] % 4) * 16) >>
  ELSE IF Len(bytes) = 2
  THEN << Base64UrlChar(bytes[1] \div 4),
          Base64UrlChar((bytes[1] % 4) * 16 + bytes[2] \div 16),
          Base64UrlChar((bytes[2] % 16) * 4) >>
  ELSE << Base64UrlChar(bytes[1] \div 4),
          Base64UrlChar((bytes[1] % 4) * 16 + bytes[2] \div 16),
          Base64UrlChar((bytes[2] % 16) * 4 + bytes[3] \div 64),
          Base64UrlChar(bytes[3] % 64) >>
       \o encode_slice(SubSeq(bytes, 4, Len(bytes)))

\* pkce::base64url: the encoding written into a buffer of len * 4 / 3 + 4
\* bytes, truncated to what was written
base64url(bytes) ==
  LET written == encode_slice(bytes) IN
  SubSeq(written, 1, IF Len(written) <= (Len(bytes) * 4) \div 3 + 4
                     THEN Len(written) ELSE (Len(bytes) * 4) \div 3 + 4)

\* Sha256: the digest is 32 bytes that depend on every byte of the input
\* and on its length; the function stands for the one of the sha2 crate
RECURSIVE Sha256Mix(_, _)
Sha256Mix(input, i) ==
  IF input = << >> THEN i
  ELSE (Sha256Mix(Tail(input), i) * 31 + Head(input) + i) % 256
Sha256(input) == [i \in 1..32 |-> Sha256Mix(input, i + Len(input))]

\* generate that hashes the random bytes instead of the encoded verifier
pkce_generate_hash_raw(random) ==
  LET verifier_base64 == base64url(random)
      challenge == Sha256(random)
  IN [challenge |-> base64url(challenge), verifier |-> verifier_base64]

\* pkce::generate for the random bytes drawn at line 17
pkce_generate(random) ==
  LET verifier_base64 == base64url(random)
      challenge == Sha256(verifier_base64)
  IN [challenge |-> base64url(challenge), verifier |-> verifier_base64]

\* the `state` of get_authorize_url: ten random characters with the feature
\* random_state, the fixed string without it
StateValues(f) == IF f.random_state THEN {"state1", "state2"} ELSE {"rfesi_unused"}

\* get_authorize_url that adds the PKCE challenge in every mode
get_authorize_url_always_pkce(e, state, verifier) ==
  LET c == check_client_info(e)
      pkce == generate(verifier)
      url == << <<"response_type", "code">>, <<"redirect_uri", Unwrap(e.callback_url)>>,
                <<"client_id", Unwrap(e.client_id)>>, <<"scope", "scope">>,
                <<"state", state>> >>
  IN
  IF c.out # "Ok" THEN [out |-> c.out, val |-> c.val]
  ELSE [out |-> "Ok",
        val |-> Some([authorization_url |->
                        url \o << <<"code_challenge", pkce.challenge>>,
                                  <<"code_challenge_method", "S256">> >>,
                      state |-> state, pkce_verifier |-> Some(pkce.verifier)])]

\* Esi::get_authorize_url; the URL is the sequence of its query parameters,
\* state and verifier are the random draws the call makes
get_authorize_url(e, state, verifier) ==
  LET c == check_client_info(e)
      pkce == generate(verifier)
      url == << <<"response_type", "code">>, <<"redirect_uri", Unwrap(e.callback_url)>>,
                <<"client_id", Unwrap(e.client_id)>>, <<"scope", "scope">>,
                <<"state", state>> >>
  IN
  IF c.out # "Ok" THEN [out |-> c.out, val |-> c.val]
  ELSE IF IsNone(e.client_secret) /\ e.application_auth
  THEN [out |-> "Ok",
        val |-> Some([authorization_url |->
                        url \o << <<"code_challenge", pkce.challenge>>,
                                  <<"code_challenge_method", "S256">> >>,
                      state |-> state, pkce_verifier |-> Some(pkce.verifier)])]
  ELSE [out |-> "Ok",
        val |-> Some([authorization_url |-> url, state |-> state, pkce_verifier |-> None])]

\* serde: AuthenticateResponse needs access_token and expires_in
DeserializeAuthenticateResponse(body) ==
  IsSome(body.access_token) /\ IsSome(body.expires_in)
\* serde: RefreshTokenAuthenticateResponse needs all three fields
DeserializeRefreshTokenAuthenticateResponse(body) ==
  IsSome(body.access_token) /\ IsSome(body.expires_in) /\ IsSome(body.refresh_token)

(***************************************************************************)
(* A caller's record: where it is in its operation (pc), the request it    *)
(* has on the wire (req), the parsed token response it holds (data), the   *)
(* instant that response arrived (recv, kept for the properties only) and, *)
(* once the operation has returned, its result (out, val).                 *)
(***************************************************************************)
NoReq == [url |-> "none", authorization |-> None, form |-> {}]
Request(url, authorization, form) ==
  [url |-> url, authorization |-> authorization, form |-> form]

Return(op, out, val) ==
  [pc |-> "idle", op |-> op, out |-> out, val |-> val, req |-> NoReq,
   data |-> EmptyBody, recv |-> 0]
ReturnWith(op, out, val, data, recv) ==
  [pc |-> "idle", op |-> op, out |-> out, val |-> val, req |-> NoReq,
   data |-> data, recv |-> recv]
Await(op, pc, req, data, recv) ==
  [pc |-> pc, op |-> op, out |-> "pending", val |-> None, req |-> req,
   data |-> data, recv |-> recv]

\* result of one step of an operation: the struct, the tracker, the caller
Step(e, s, tk) == [esi |-> e, els |-> s, task |-> tk]


(***************************************************************************)
(* Responses of the servers.  transport = FALSE is a failed `.send()`.     *)
(***************************************************************************)
Responses(bodies, noBody) ==
  [transport : {TRUE}, status : Statuses, headers : HeaderMaps, body : bodies]
  \cup {[transport |-> FALSE, status |-> 0, headers |-> NoHeaders, body |-> noBody]}
SpecResponses == Responses(SpecBodies, None)
\* responses of the specification endpoint with every kind of document
DocResponses ==
  [transport : {TRUE}, status : {200, 420},
   headers : {NoHeaders, Headers(Some("0"), Some("2")), Headers(Some("x"), Some("2"))},
   body : DocBodies]
  \cup {[transport |-> FALSE, status |-> 0, headers |-> NoHeaders, body |-> None]}
TokenResponses == Responses(TokenBodies, EmptyBody)
\* header maps with values that do not parse or cannot be read, next to
\* those that can
FaultyHeaderMaps ==
  { Headers(Some("x"), Some("2")), Headers(Some("0"), Some("x")),
    Headers(Some("x"), Some("x")), Headers(Some(OpaqueValue), Some("2")),
    Headers(Some("0"), Some(OpaqueValue)), Headers(Some(OpaqueValue), Some("x")),
    Headers(Some("x"), Some(OpaqueValue)),
    Headers(Some("0"), Some("2")), Headers(Some("x"), None), NoHeaders }
FaultyResponses(bodies) ==
  [transport : {TRUE}, status : {200, 420}, headers : FaultyHeaderMaps, body : bodies]
ApiResponses == Responses(ApiBodies, "garbage")
KeysUrlResponses ==
  [transport : {TRUE}, status : {200, 420}, headers : {NoHeaders}, body : KeysUrlBodies]
  \cup {[transport |-> FALSE, status |-> 0, headers |-> NoHeaders, body |-> "garbage"]}
JwksResponses ==
  [transport : {TRUE}, status : {200, 420}, headers : {NoHeaders}, body : JwksBodies]
  \cup {[transport |-> FALSE, status |-> 0, headers |-> NoHeaders, body |-> "garbage"]}

(***************************************************************************)
(* Esi::update_spec                                                        *)
(***************************************************************************)
\* up to `self.client.get(&self.spec_url).send().await`
update_spec_call(e, s, t) ==
  LET g == assert_not_error_limited(s, t) IN
  IF g.out # "Ok" THEN Step(e, s, Return("update_spec", g.out, g.val))
  ELSE Step(e, s, Await("update_spec", "update_spec:send",
                        Request("spec_url", None, {}), EmptyBody, 0))

\* update_spec_recv that stores the body before it looks at the status
update_spec_recv_store_first(e, s, t, resp) ==
  IF ~resp.transport THEN Step(e, s, Return("update_spec", "ReqwestError", None))
  ELSE LET p == process_error_limit_headers(s, resp.headers, t) IN
       IF p.out # "Ok" THEN Step(e, p.state, Return("update_spec", p.out, p.val))
       ELSE IF IsNone(resp.body)
       THEN Step(e, p.state, Return("update_spec", "ReqwestError", None))
       ELSE IF ~is_success(resp.status)
       THEN Step([e EXCEPT !.spec = resp.body], p.state,
                 Return("update_spec", "InvalidStatusCode", Some(resp.status)))
       ELSE Step([e EXCEPT !.spec = resp.body], p.state, Return("update_spec", "Ok", None))

\* from the response to the return
update_spec_recv(e, s, t, resp) ==
  IF ~resp.transport THEN Step(e, s, Return("update_spec", "ReqwestError", None))
  ELSE LET p == process_error_limit_headers(s, resp.headers, t) IN
       IF p.out # "Ok" THEN Step(e, p.state, Return("update_spec", p.out, p.val))
       ELSE IF ~is_success(resp.status)
       THEN Step(e, p.state, Return("update_spec", "InvalidStatusCode", Some(resp.status)))
       ELSE IF IsNone(resp.body)
       THEN Step(e, p.state, Return("update_spec", "ReqwestError", None))
       ELSE Step([e EXCEPT !.spec = resp.body], p.state, Return("update_spec", "Ok", None))

(***************************************************************************)
(* Esi::get_endpoint_for_op_id and Esi::try_get_endpoint_for_op_id         *)
(***************************************************************************)
\* `path_str.chars().skip(1).collect()`
skip1(path_str) == IF path_str = << >> THEN << >> ELSE Tail(path_str)

\* the inner loop: some method of the path entry carries the operation id
has_operation_id(path, op_id) ==
  \E i \in DOMAIN path : path[i].operationId = Some(op_id)

\* the loop over the path entries that returns the path as it is stored
RECURSIVE find_endpoint_keep_slash(_, _)
find_endpoint_keep_slash(paths, op_id) ==
  IF paths = << >> THEN [out |-> "UnknownOperationID", val |-> Some(op_id)]
  ELSE IF IsNone(Head(paths).obj)
  THEN [out |-> "FailedSpecParse", val |-> Some("Parsing a path")]
  ELSE IF has_operation_id(Unwrap(Head(paths).obj), op_id)
  THEN [out |-> "Ok", val |-> Some(Head(paths).path)]
  ELSE find_endpoint_keep_slash(Tail(paths), op_id)

\* lines 632-648: the loop over the path entries, in iteration order
RECURSIVE find_endpoint(_, _)
find_endpoint(paths, op_id) ==
  IF paths = << >> THEN [out |-> "UnknownOperationID", val |-> Some(op_id)]
  ELSE IF IsNone(Head(paths).obj)
  THEN [out |-> "FailedSpecParse", val |-> Some("Parsing a path")]
  ELSE IF has_operation_id(Unwrap(Head(paths).obj), op_id)
  THEN [out |-> "Ok", val |-> Some(skip1(Head(paths).path))]
  ELSE find_endpoint(Tail(paths), op_id)

\* get_endpoint_for_op_id that takes an empty `paths` object for a malformed
\* document
get_endpoint_for_op_id_empty_paths(spec, op_id) ==
  IF IsNone(spec) THEN [out |-> "EmptySpec", val |-> None]
  ELSE IF IsNone(Unwrap(spec).paths) \/ Unwrap(spec).paths = Some(<< >>)
  THEN [out |-> "FailedSpecParse", val |-> Some("Getting paths")]
  ELSE find_endpoint(Unwrap(Unwrap(spec).paths), op_id)

\* Esi::get_endpoint_for_op_id on the stored specification
get_endpoint_for_op_id(spec, op_id) ==
  IF IsNone(spec) THEN [out |-> "EmptySpec", val |-> None]
  ELSE IF IsNone(Unwrap(spec).paths)
  THEN [out |-> "FailedSpecParse", val |-> Some("Getting paths")]
  ELSE find_endpoint(Unwrap(Unwrap(spec).paths), op_id)

\* try_get_endpoint_for_op_id that fetches the specification on every call
try_get_endpoint_for_op_id_call_always(e, s, t, op_id) ==
  LET u == update_spec_call(e, s, t) IN
  IF u.task.pc = "idle"
  THEN Step(e, s, Return("try_get_endpoint_for_op_id", u.task.out, u.task.val))
  ELSE Step(e, s, Await("try_get_endpoint_for_op_id", "try_get_endpoint_for_op_id:send",
                        u.task.req, EmptyBody, 0))

\* Esi::try_get_endpoint_for_op_id up to the `.send().await` of update_spec,
\* or to its return when a specification is stored
try_get_endpoint_for_op_id_call(e, s, t, op_id) ==
  IF IsNone(e.spec)
  THEN LET u == update_spec_call(e, s, t) IN
       IF u.task.pc = "idle"
       THEN Step(e, s, Return("try_get_endpoint_for_op_id", u.task.out, u.task.val))
       ELSE Step(e, s, Await("try_get_endpoint_for_op_id", "try_get_endpoint_for_op_id:send",
                             u.task.req, EmptyBody, 0))
  ELSE LET r == get_endpoint_for_op_id(e.spec, op_id) IN
       Step(e, s, Return("try_get_endpoint_for_op_id", r.out, r.val))

\* the rest of update_spec, then get_endpoint_for_op_id
try_get_endpoint_for_op_id_recv(e, s, t, resp, op_id) ==
  LET u == update_spec_recv(e, s, t, resp) IN
  IF u.task.out # "Ok"
  THEN Step(u.esi, u.els, Return("try_get_endpoint_for_op_id", u.task.out, u.task.val))
  ELSE LET r == get_endpoint_for_op_id(u.esi.spec, op_id) IN
       Step(u.esi, u.els, Return("try_get_endpoint_for_op_id", r.out, r.val))

(***************************************************************************)
(* Esi::authenticate                                                       *)
(***************************************************************************)
\* authenticate_store that keeps the stored refresh token when the response
\* brings none
authenticate_store_keep(e, data, recv, t) ==
  LET e1 == [e EXCEPT !.access_token = Some(Unwrap(data.access_token))] IN
  IF ~current_time_millis(t).ok
  THEN [esi |-> e1, task |-> ReturnWith("authenticate", "Timestamp", None, data, recv)]
  ELSE [esi |-> [e1 EXCEPT
                   !.access_expiration =
                      Some(Unwrap(data.expires_in) * MillisPerSec + current_time_millis(t).v),
                   !.refresh_token = IF IsSome(data.refresh_token)
                                     THEN data.refresh_token ELSE e.refresh_token],
        task |-> ReturnWith("authenticate", "Ok", None, data, recv)]

\* lines 376-379: the three assignments, the clock read between them
authenticate_store(e, data, recv, t) ==
  LET e1 == [e EXCEPT !.access_token = Some(Unwrap(data.access_token))] IN
  IF ~current_time_millis(t).ok
  THEN [esi |-> e1, task |-> ReturnWith("authenticate", "Timestamp", None, data, recv)]
  ELSE [esi |-> [e1 EXCEPT
                   !.access_expiration =
                      Some(Unwrap(data.expires_in) * MillisPerSec + current_time_millis(t).v),
                   !.refresh_token = data.refresh_token],
        task |-> ReturnWith("authenticate", "Ok", None, data, recv)]

\* up to `.post(&self.token_url)...send().await`
authenticate_call(e, s, t, pkce_verifier) ==
  LET g == assert_not_error_limited(s, t)
      h == get_auth_headers(e)
  IN
  IF g.out # "Ok" THEN Step(e, s, Return("authenticate", g.out, g.val))
  ELSE IF e.application_auth /\ IsNone(e.client_id)
  THEN Step(e, s, Return("authenticate", "Panic", None))
  ELSE IF e.application_auth /\ IsNone(pkce_verifier)
  THEN Step(e, s, Return("authenticate", "Panic", None))
  ELSE IF h.out # "Ok" THEN Step(e, s, Return("authenticate", h.out, h.val))
  ELSE Step(e, s, Await("authenticate", "authenticate:send",
         Request("token_url", h.authorization,
                 {<<"grant_type", "authorization_code">>, <<"code", "code">>}
                 \cup (IF e.application_auth
                       THEN {<<"client_id", Unwrap(e.client_id)>>,
                             <<"code_verifier", Unwrap(pkce_verifier)>>}
                       ELSE {})),
         EmptyBody, 0))

\* from the token response to the return or to the key discovery request
authenticate_recv(e, s, f, t, resp) ==
  IF ~resp.transport THEN Step(e, s, Return("authenticate", "ReqwestError", None))
  ELSE IF resp.status # 200
  THEN Step(e, s, Return("authenticate", "InvalidStatusCode", Some(resp.status)))
  ELSE LET p == process_error_limit_headers(s, resp.headers, t) IN
       IF p.out # "Ok" THEN Step(e, p.state, Return("authenticate", p.out, p.val))
       ELSE IF ~DeserializeAuthenticateResponse(resp.body)
       THEN Step(e, p.state, Return("authenticate", "ReqwestError", None))
       ELSE IF f.validate_jwt
       THEN Step(e, p.state, Await("authenticate", "authenticate:keys_url",
                   Request("TOKEN_AUTH_INFO_URL", None, {}), resp.body, t))
       ELSE LET st == authenticate_store(e, resp.body, t, t) IN
            Step(st.esi, p.state, st.task)

\* jwt_util::get_keys_url, from its response on
get_keys_url_recv(e, s, tk, resp) ==
  IF ~resp.transport THEN Step(e, s, Return("authenticate", "ReqwestError", None))
  ELSE IF resp.status # 200
  THEN Step(e, s, Return("authenticate", "InvalidStatusCode", Some(resp.status)))
  ELSE IF resp.body = "garbage"
  THEN Step(e, s, Return("authenticate", "ReqwestError", None))
  ELSE IF resp.body = "no_jwks_uri"
  THEN Step(e, s, Return("authenticate", "InvalidJWT", Some("Could not get keys URL")))
  ELSE Step(e, s, Await("authenticate", "authenticate:jwks",
                        Request("jwks_uri", None, {}), tk.data, tk.recv))

\* jwt_util::get_rs256_key from its response on, validate, and the store
get_rs256_key_recv(e, s, tk, t, resp) ==
  IF ~resp.transport THEN Step(e, s, Return("authenticate", "ReqwestError", None))
  ELSE CASE resp.body = "garbage" -> Step(e, s, Return("authenticate", "ReqwestError", None))
         [] resp.body = "no_keys_array" -> Step(e, s, Return("authenticate", "Panic", None))
         [] resp.body = "no_rs256" ->
              Step(e, s, Return("authenticate", "InvalidJWT", Some("Could not find an RS256 key")))
         [] resp.body = "bad_signature" ->
              Step(e, s, Return("authenticate", "JwtValidationFailed", None))
         [] resp.body = "bad_issuer" ->
              Step(e, s, Return("authenticate", "InvalidJWT", Some("JWT issuer is incorrect")))
         [] OTHER -> LET st == authenticate_store(e, tk.data, tk.recv, t) IN
                     Step(st.esi, s, st.task)

(***************************************************************************)
(* The seconds-to-milliseconds conversions at the width of the source.  A  *)
(* 64-bit value is its four 16-bit limbs, the lowest first; an i64 is the  *)
(* two's complement reading of them, and `as i64` of a u64 keeps the bits. *)
(* With overflow checks (debug builds) an overflowing `*` or `+` panics,   *)
(* without them (release builds) it wraps.                                 *)
(***************************************************************************)
Limb == 256 * 256
\* the 64-bit value of a small natural number
FromNat(n) == << n % Limb, (n \div Limb) % Limb, 0, 0 >>
IsNegative(a) == a[4] >= Limb \div 2
\* a < b, both read as i64
LessI64(a, b) ==
  IF IsNegative(a) # IsNegative(b) THEN IsNegative(a)
  ELSE \E i \in 1..4 : a[i] < b[i] /\ \A j \in (i + 1)..4 : a[j] = b[j]
\* the low 64 bits of a * k and what goes beyond them, for a small k
MulBits(a, k) ==
  LET p1 == a[1] * k
      p2 == a[2] * k + p1 \div Limb
      p3 == a[3] * k + p2 \div Limb
      p4 == a[4] * k + p3 \div Limb
  IN [bits |-> << p1 % Limb, p2 % Limb, p3 % Limb, p4 % Limb >>, carry |-> p4 \div Limb]
\* the low 64 bits of a + b
AddBits(a, b) ==
  LET s1 == a[1] + b[1]
      s2 == a[2] + b[2] + s1 \div Limb
      s3 == a[3] + b[3] + s2 \div Limb
      s4 == a[4] + b[4] + s3 \div Limb
  IN << s1 % Limb, s2 % Limb, s3 % Limb, s4 % Limb >>
\* the bits of -a
NegBits(a) ==
  AddBits(<< Limb - 1 - a[1], Limb - 1 - a[2], Limb - 1 - a[3], Limb - 1 - a[4] >>,
          FromNat(1))
MinI64 == << 0, 0, 0, Limb \div 2 >>
\* i64 `a * k` for a small positive k: the wrapped bits, and whether the
\* product leaves the range of i64
mul_i64(a, k) ==
  LET magnitude == MulBits(IF IsNegative(a) THEN NegBits(a) ELSE a, k) IN
  [bits |-> MulBits(a, k).bits,
   overflow |-> \/ magnitude.carry > 0
                \/ IsNegative(magnitude.bits) /\ ~(IsNegative(a) /\ magnitude.bits = MinI64)]
\* i64 `a + b`
add_i64(a, b) ==
  LET sum == AddBits(a, b) IN
  [bits |-> sum,
   overflow |-> IsNegative(a) = IsNegative(b) /\ IsNegative(sum) # IsNegative(a)]

\* expires_in values a token response can carry (u64)
ExpiresIns ==
  {
    << 1, 0, 0, 0 >>,   \* 1
    << 1200, 0, 0, 0 >>,   \* 1200
    << 20864, 1, 0, 0 >>,   \* 86400
    << 0, 0, 1, 0 >>,   \* 4294967296
    << 21495, 42467, 50331, 32 >>,   \* 9223372036854775
    << 21496, 42467, 50331, 32 >>,   \* 9223372036854776
    << 65535, 65535, 65535, 32767 >>,   \* 9223372036854775807
    << 0, 0, 0, 32768 >>,   \* 9223372036854775808
    << 5, 0, 0, 32768 >>,   \* 9223372036854775813
    << 42991, 19398, 35127, 65 >>,   \* 18446744073709551
    << 64536, 65535, 65535, 65535 >>,   \* 18446744073709550616
    << 65535, 65535, 65535, 65535 >>    \* 18446744073709551615
  }
\* non-negative reset values the header can carry (i64)
ResetsIns ==
  {
    << 0, 0, 0, 0 >>,   \* 0
    << 2, 0, 0, 0 >>,   \* 2
    << 60, 0, 0, 0 >>,   \* 60
    << 3600, 0, 0, 0 >>,   \* 3600
    << 0, 0, 1, 0 >>,   \* 4294967296
    << 21495, 42467, 50331, 32 >>,   \* 9223372036854775
    << 21496, 42467, 50331, 32 >>,   \* 9223372036854776
    << 0, 0, 0, 16384 >>,   \* 4611686018427387904
    << 65535, 65535, 65535, 32767 >>    \* 9223372036854775807
  }

\* client.rs 378 and 475: `(data.expires_in as i64 * 1_000) + current_time_millis()?`
access_expiration(expires_in, t, overflow_checks) ==
  LET product == mul_i64(expires_in, MillisPerSec) IN
  IF product.overflow /\ overflow_checks THEN [out |-> "Panic", val |-> None]
  ELSE IF ~current_time_millis(t).ok THEN [out |-> "Timestamp", val |-> None]
  ELSE LET sum == add_i64(product.bits, FromNat(current_time_millis(t).v)) IN
       IF sum.overflow /\ overflow_checks THEN [out |-> "Panic", val |-> None]
       ELSE [out |-> "Ok", val |-> Some(sum.bits)]

\* client.rs 666: `current_time_millis()? + resets_in * 1000`
expires_at_millis(resets_in, t, overflow_checks) ==
  IF ~current_time_millis(t).ok THEN [out |-> "Timestamp", val |-> None]
  ELSE LET product == mul_i64(resets_in, MillisPerSec) IN
       IF product.overflow /\ overflow_checks THEN [out |-> "Panic", val |-> None]
       ELSE LET sum == add_i64(FromNat(current_time_millis(t).v), product.bits) IN
            IF sum.overflow /\ overflow_checks THEN [out |-> "Panic", val |-> None]
            ELSE [out |-> "Ok", val |-> Some(sum.bits)]

(***************************************************************************)
(* EsiBuilder::build.  A builder is the fields from_builder copies and     *)
(* construct_client reads; a user agent is the bytes of its string;        *)
(* backend tells whether reqwest can set its client up in this process.    *)
(***************************************************************************)
UserAgents == { None, Some(<< 117, 97 >>), Some(<< >>), Some(<< 117, 10 >>) }
Builders ==
  { [user_agent |-> u, client_id |-> c.client_id, client_secret |-> c.client_secret,
     callback_url |-> c.callback_url, application_auth |-> a,
     access_token |-> k.access_token, access_expiration |-> k.access_expiration,
     refresh_token |-> k.refresh_token, spec |-> d, backend |-> b] :
    u \in UserAgents, c \in { x \in AllConfigs : ~x.application_auth },
    a \in {None, Some(TRUE), Some(FALSE)}, k \in SeedTokens,
    d \in {None, Some(DocAB)}, b \in BOOLEAN }

\* HeaderValue::from_str: visible ASCII, space and tab, bytes from 128 on
ValidHeaderValue(bytes) ==
  \A i \in DOMAIN bytes : (bytes[i] >= 32 /\ bytes[i] # 127) \/ bytes[i] = 9

\* the Display of an error (thiserror's #[error] attributes)
Display(out, val) ==
  IF out = "EmptyClientValue"
  THEN << "Missing required builder struct value '", Unwrap(val), "'" >>
  ELSE << out >>

\* construct_client that asks for a client id as well
construct_client_needs_client_id(builder) ==
  IF IsNone(builder.user_agent)
  THEN [out |-> "EmptyClientValue", val |-> Some("user_agent")]
  ELSE IF IsNone(builder.client_id)
  THEN [out |-> "EmptyClientValue", val |-> Some("client_id")]
  ELSE IF ~ValidHeaderValue(Unwrap(builder.user_agent))
  THEN [out |-> "InvalidUserAgentHeader", val |-> None]
  ELSE IF ~builder.backend THEN [out |-> "ReqwestError", val |-> None]
  ELSE [out |-> "Ok", val |-> None]

\* EsiBuilder::construct_client
construct_client(builder) ==
  IF IsNone(builder.user_agent)
  THEN [out |-> "EmptyClientValue", val |-> Some("user_agent")]
  ELSE IF ~ValidHeaderValue(Unwrap(builder.user_agent))
  THEN [out |-> "InvalidUserAgentHeader", val |-> None]
  ELSE IF ~builder.backend THEN [out |-> "ReqwestError", val |-> None]
  ELSE [out |-> "Ok", val |-> None]

\* Esi::from_builder: the session when construct_client succeeds
from_builder(builder) ==
  LET c == construct_client(builder) IN
  IF c.out # "Ok" THEN [out |-> c.out, val |-> c.val, esi |-> None, els |-> None]
  ELSE [out |-> "Ok", val |-> None,
        esi |-> Some([client_id |-> builder.client_id,
                      client_secret |-> builder.client_secret,
                      callback_url |-> builder.callback_url,
                      application_auth |-> IF IsSome(builder.application_auth)
                                           THEN Unwrap(builder.application_auth)
                                           ELSE FALSE,
                      access_token |-> builder.access_token,
                      access_expiration |-> builder.access_expiration,
                      refresh_token |-> builder.refresh_token,
                      spec |-> builder.spec]),
        els |-> None]

(***************************************************************************)
(* jwt_util::validate.  A token is what validation reads of it: whether    *)
(* its signature verifies against the decoding key, its sub (None when     *)
(* absent), its exp in seconds, its aud list, its iss (None when absent or *)
(* no string) and whether the other fields of TokenClaims are there.       *)
(***************************************************************************)
\* the leeway of `Validation::new`, in seconds
Leeway == 60
\* line 53: the audiences handed to `set_audience`
Audience(client_id) == {client_id, "EVE Online"}
\* lines 58-59: the issuer strings that pass
AcceptedIssuers == {"login.eveonline.com", "https://login.eveonline.com"}

JwtExps == {JwtClock \div MillisPerSec - 90, JwtClock \div MillisPerSec - 30,
            JwtClock \div MillisPerSec + 100}
JwtAuds == { << >>, << "id", "EVE Online" >>, << "id" >>, << "EVE Online" >>,
             << "other" >>, << "other", "EVE Online" >> }
JwtIssuers == { None, Some("login.eveonline.com"), Some("https://login.eveonline.com"),
                Some(""), Some("http://login.eveonline.com") }
JwtTokens == [signed : BOOLEAN, sub : {None, Some("CHARACTER:EVE:1")}, exp : JwtExps,
              aud : JwtAuds, iss : JwtIssuers, rest : BOOLEAN]
\* the claims of a token (TokenData.claims / TokenClaims)
Claims(token) == [aud |-> token.aud, exp |-> token.exp, iss |-> Unwrap(token.iss),
                  sub |-> Unwrap(token.sub)]
Elems(seq) == { seq[i] : i \in DOMAIN seq }

\* decode that reports every failure with one and the same error
decode_one_kind(token, client_id, t) ==
  IF ~token.signed \/ IsNone(token.sub) \/ token.exp < t \div MillisPerSec - Leeway
     \/ Elems(token.aud) \cap Audience(client_id) = {}
  THEN [out |-> "JwtValidationFailed", val |-> Some("InvalidToken")]
  ELSE [out |-> "Ok", val |-> None]

\* lines 51-56: `decode` under the validations set up there (RS256, sub
\* required, exp checked with the leeway, aud against the audience set)
decode(token, client_id, t) ==
  IF ~token.signed THEN [out |-> "JwtValidationFailed", val |-> Some("InvalidSignature")]
  ELSE IF IsNone(token.sub)
  THEN [out |-> "JwtValidationFailed", val |-> Some("MissingRequiredClaim")]
  ELSE IF token.exp < t \div MillisPerSec - Leeway
  THEN [out |-> "JwtValidationFailed", val |-> Some("ExpiredSignature")]
  ELSE IF Elems(token.aud) \cap Audience(client_id) = {}
  THEN [out |-> "JwtValidationFailed", val |-> Some("InvalidAudience")]
  ELSE [out |-> "Ok", val |-> None]

\* validate that knows one issuer string only
validate_one_issuer(token, client_id, t) ==
  LET d == decode(token, client_id, t) IN
  IF d.out # "Ok" THEN d
  ELSE IF IsNone(token.iss) THEN [out |-> "Panic", val |-> None]
  ELSE IF Unwrap(token.iss) # "login.eveonline.com"
  THEN [out |-> "InvalidJWT", val |-> Some("JWT issuer is incorrect")]
  ELSE IF ~token.rest THEN [out |-> "FailedJsonParse", val |-> None]
  ELSE [out |-> "Ok", val |-> Some(Claims(token))]

\* jwt_util::validate at clock t
validate(token, client_id, t) ==
  LET d == decode(token, client_id, t) IN
  IF d.out # "Ok" THEN d
  ELSE IF IsNone(token.iss) THEN [out |-> "Panic", val |-> None]
  ELSE IF Unwrap(token.iss) \notin AcceptedIssuers
  THEN [out |-> "InvalidJWT", val |-> Some("JWT issuer is incorrect")]
  ELSE IF ~token.rest THEN [out |-> "FailedJsonParse", val |-> None]
  ELSE [out |-> "Ok", val |-> Some(Claims(token))]

(***************************************************************************)
(* Esi::refresh_access_token                                               *)
(***************************************************************************)
\* choose_refresh_token that prefers the stored token
choose_refresh_token_stored_first(refresh_token, stored) ==
  IF IsSome(stored) THEN stored
  ELSE IF IsSome(refresh_token) THEN refresh_token
  ELSE None

\* lines 443-449: the explicitly supplied token, else the stored one
choose_refresh_token(refresh_token, stored) ==
  IF IsSome(refresh_token) THEN refresh_token
  ELSE IF IsSome(stored) THEN stored
  ELSE None

\* lines 473-476: the three assignments, the clock read between them
refresh_store(e, data, recv, t) ==
  LET e1 == [e EXCEPT !.access_token = Some(Unwrap(data.access_token))] IN
  IF ~current_time_millis(t).ok
  THEN [esi |-> e1, task |-> ReturnWith("refresh_access_token", "Timestamp", None, data, recv)]
  ELSE [esi |-> [e1 EXCEPT
                   !.access_expiration =
                      Some(Unwrap(data.expires_in) * MillisPerSec + current_time_millis(t).v),
                   !.refresh_token = Some(Unwrap(data.refresh_token))],
        task |-> ReturnWith("refresh_access_token", "Ok", None, data, recv)]

\* up to `.post(&self.token_url)...send().await`
refresh_access_token_call(e, s, t, refresh_token) ==
  LET g == assert_not_error_limited(s, t)
      token == choose_refresh_token(refresh_token, e.refresh_token)
      h == get_auth_headers(e)
  IN
  IF g.out # "Ok" THEN Step(e, s, Return("refresh_access_token", g.out, g.val))
  ELSE IF IsNone(token)
  THEN Step(e, s, Return("refresh_access_token", "NoRefreshTokenAvailable", None))
  ELSE IF e.application_auth /\ IsNone(e.client_id)
  THEN Step(e, s, Return("refresh_access_token", "Panic", None))
  ELSE IF h.out # "Ok" THEN Step(e, s, Return("refresh_access_token", h.out, h.val))
  ELSE Step(e, s, Await("refresh_access_token", "refresh_access_token:send",
         Request("token_url", h.authorization,
                 {<<"grant_type", "refresh_token">>, <<"refresh_token", Unwrap(token)>>}
                 \cup (IF e.application_auth
                       THEN {<<"client_id", Unwrap(e.client_id)>>}
                       ELSE {})),
         EmptyBody, 0))

\* refresh_access_token_recv that logs the session out when the token
\* endpoint refuses the refresh token
refresh_access_token_recv_logout(e, s, t, resp) ==
  IF ~resp.transport THEN Step(e, s, Return("refresh_access_token", "ReqwestError", None))
  ELSE LET p == process_error_limit_headers(s, resp.headers, t) IN
       IF p.out # "Ok" THEN Step(e, p.state, Return("refresh_access_token", p.out, p.val))
       ELSE IF resp.status # 200
       THEN Step([e EXCEPT !.access_token = None, !.access_expiration = None,
                           !.refresh_token = None],
                 p.state, Return("refresh_access_token", "InvalidStatusCode", Some(resp.status)))
       ELSE IF ~DeserializeRefreshTokenAuthenticateResponse(resp.body)
       THEN Step(e, p.state, Return("refresh_access_token", "ReqwestError", None))
       ELSE LET st == refresh_store(e, resp.body, t, t) IN
            Step(st.esi, p.state, st.task)

\* from the token response to the return
refresh_access_token_recv(e, s, t, resp) ==
  IF ~resp.transport THEN Step(e, s, Return("refresh_access_token", "ReqwestError", None))
  ELSE LET p == process_error_limit_headers(s, resp.headers, t) IN
       IF p.out # "Ok" THEN Step(e, p.state, Return("refresh_access_token", p.out, p.val))
       ELSE IF resp.status # 200
       THEN Step(e, p.state, Return("refresh_access_token", "InvalidStatusCode", Some(resp.status)))
       ELSE IF ~DeserializeRefreshTokenAuthenticateResponse(resp.body)
       THEN Step(e, p.state, Return("refresh_access_token", "ReqwestError", None))
       ELSE LET st == refresh_store(e, resp.body, t, t) IN
            Step(st.esi, p.state, st.task)

(***************************************************************************)
(* Esi::query                                                              *)
(***************************************************************************)
\* query_check_auth without the access_token check
query_check_auth_no_token(e, t, request_type) ==
  IF request_type # "Authenticated" THEN [out |-> "Ok", val |-> None]
  ELSE IF IsNone(e.access_expiration) THEN [out |-> "Panic", val |-> None]
  ELSE IF ~current_time_millis(t).ok THEN [out |-> "Timestamp", val |-> None]
  ELSE IF Unwrap(e.access_expiration) < current_time_millis(t).v
  THEN [out |-> "AccessTokenExpired", val |-> None]
  ELSE [out |-> "Ok", val |-> None]

\* query_check_auth without the expiration check
query_check_auth_no_expiry(e, t, request_type) ==
  IF request_type # "Authenticated" THEN [out |-> "Ok", val |-> None]
  ELSE IF IsNone(e.access_token) THEN [out |-> "MissingAuthentication", val |-> None]
  ELSE IF IsNone(e.access_expiration) THEN [out |-> "Panic", val |-> None]
  ELSE IF ~current_time_millis(t).ok THEN [out |-> "Timestamp", val |-> None]
  ELSE [out |-> "Ok", val |-> None]

\* lines 520-527: the local checks of an authenticated request
query_check_auth(e, t, request_type) ==
  IF request_type # "Authenticated" THEN [out |-> "Ok", val |-> None]
  ELSE IF IsNone(e.access_token) THEN [out |-> "MissingAuthentication", val |-> None]
  ELSE IF IsNone(e.access_expiration) THEN [out |-> "Panic", val |-> None]
  ELSE IF ~current_time_millis(t).ok THEN [out |-> "Timestamp", val |-> None]
  ELSE IF Unwrap(e.access_expiration) < current_time_millis(t).v
  THEN [out |-> "AccessTokenExpired", val |-> None]
  ELSE [out |-> "Ok", val |-> None]

\* query_headers that attaches the token to every request
query_headers_always(e, request_type) ==
  IF IsSome(e.access_token)
  THEN Some(<<"Bearer", Unwrap(e.access_token)>>)
  ELSE None

\* lines 528-542: the Authorization header of the request
query_headers(e, request_type) ==
  IF request_type = "Authenticated" /\ IsSome(e.access_token)
  THEN Some(<<"Bearer", Unwrap(e.access_token)>>)
  ELSE None

\* up to `self.client.execute(req).await`
query_call(e, s, t, request_type, method) ==
  LET g == assert_not_error_limited(s, t)
      a == query_check_auth(e, t, request_type)
  IN
  IF g.out # "Ok" THEN Step(e, s, Return("query", g.out, g.val))
  ELSE IF a.out # "Ok" THEN Step(e, s, Return("query", a.out, a.val))
  ELSE IF method = "" THEN Step(e, s, Return("query", "HttpMethodError", None))
  ELSE Step(e, s, Await("query", "query:send",
                        Request("base_api_url", query_headers(e, request_type), {}),
                        EmptyBody, 0))

\* lines 519-527 on their own: the gate and the local checks, after which
\* the caller holds no lock and has sent nothing yet
query_check(e, s, t, request_type) ==
  LET g == assert_not_error_limited(s, t)
      a == query_check_auth(e, t, request_type)
  IN
  IF g.out # "Ok" THEN Step(e, s, Return("query", g.out, g.val))
  ELSE IF a.out # "Ok" THEN Step(e, s, Return("query", a.out, a.val))
  ELSE Step(e, s, Await("query", "query:checked", NoReq, EmptyBody, 0))

\* query_send that asks the tracker once more before it sends
query_send_recheck(e, s, t, request_type, method) ==
  LET g == assert_not_error_limited(s, t) IN
  IF g.out # "Ok" THEN Step(e, s, Return("query", g.out, g.val))
  ELSE IF method = "" THEN Step(e, s, Return("query", "HttpMethodError", None))
  ELSE Step(e, s, Await("query", "query:send",
                        Request("base_api_url", query_headers(e, request_type), {}),
                        EmptyBody, 0))

\* lines 528-554 on their own: headers, method, body, `execute(req)`
query_send(e, s, t, request_type, method) ==
  IF method = "" THEN Step(e, s, Return("query", "HttpMethodError", None))
  ELSE Step(e, s, Await("query", "query:send",
                        Request("base_api_url", query_headers(e, request_type), {}),
                        EmptyBody, 0))

(***************************************************************************)
(* A function generated by api_post! (get_affiliation of the character     *)
(* group, say): its ids argument goes through serde_json::to_string, the   *)
(* JSON text being the sequence of its tokens.                             *)
(***************************************************************************)
IdLists == { << >>, << 2 >>, << 2, 100 >> }
\* the decimal text of an integer
ToDecimal(n) == CHOOSE d \in DOMAIN DecimalValue : DecimalValue[d] = n
RECURSIVE to_string_items(_)
to_string_items(ids) ==
  IF ids = << >> THEN << >>
  ELSE IF Len(ids) = 1 THEN << ToDecimal(ids[1]) >>
  ELSE << ToDecimal(ids[1]), "," >> \o to_string_items(Tail(ids))
\* serde_json::to_string of a slice of integers
to_string(ids) == << "[" >> \o to_string_items(ids) \o << "]" >>
\* the method the generated function hands to query
api_post_method == "GET"
\* the generated function up to the `.await` of query: the path of the
\* operation, the body, then query with that method, no parameters, the body
api_post_call(e, s, t, op_id, visibility, ids) ==
  LET p == get_endpoint_for_op_id(e.spec, op_id) IN
  IF p.out # "Ok" THEN Step(e, s, Return("api_post", p.out, p.val))
  ELSE query_call(e, s, t, visibility, api_post_method)

\* query_recv that forgets the access token when the server refuses
query_recv_forget_token(e, s, t, resp) ==
  IF ~resp.transport THEN Step(e, s, Return("query", "ReqwestError", None))
  ELSE LET p == process_error_limit_headers(s, resp.headers, t) IN
       IF p.out # "Ok" THEN Step(e, p.state, Return("query", p.out, p.val))
       ELSE IF ~is_success(resp.status)
       THEN Step([e EXCEPT !.access_token = None], p.state,
                 Return("query", "InvalidStatusCode", Some(resp.status)))
       ELSE IF resp.body = "garbage"
       THEN Step(e, p.state, Return("query", "FailedJsonParse", None))
       ELSE Step(e, p.state, Return("query", "Ok", None))

\* query_recv that takes 200 for the only successful status
query_recv_only_200(e, s, t, resp) ==
  IF ~resp.transport THEN Step(e, s, Return("query", "ReqwestError", None))
  ELSE LET p == process_error_limit_headers(s, resp.headers, t) IN
       IF p.out # "Ok" THEN Step(e, p.state, Return("query", p.out, p.val))
       ELSE IF resp.status # 200
       THEN Step(e, p.state, Return("query", "InvalidStatusCode", Some(resp.status)))
       ELSE IF resp.body = "garbage"
       THEN Step(e, p.state, Return("query", "FailedJsonParse", None))
       ELSE Step(e, p.state, Return("query", "Ok", None))

\* query_recv that sends the request again after a 420 response
query_recv_retry(e, s, t, resp) ==
  IF ~resp.transport THEN Step(e, s, Return("query", "ReqwestError", None))
  ELSE LET p == process_error_limit_headers(s, resp.headers, t) IN
       IF p.out # "Ok" THEN Step(e, p.state, Return("query", p.out, p.val))
       ELSE IF resp.status = 420
       THEN Step(e, p.state, Await("query", "query:send",
                                   Request("base_api_url", None, {}), EmptyBody, 0))
       ELSE IF ~is_success(resp.status)
       THEN Step(e, p.state, Return("query", "InvalidStatusCode", Some(resp.status)))
       ELSE IF resp.body = "garbage"
       THEN Step(e, p.state, Return("query", "FailedJsonParse", None))
       ELSE Step(e, p.state, Return("query", "Ok", None))

\* from the response to the return
query_recv(e, s, t, resp) ==
  IF ~resp.transport THEN Step(e, s, Return("query", "ReqwestError", None))
  ELSE LET p == process_error_limit_headers(s, resp.headers, t) IN
       IF p.out # "Ok" THEN Step(e, p.state, Return("query", p.out, p.val))
       ELSE IF ~is_success(resp.status)
       THEN Step(e, p.state, Return("query", "InvalidStatusCode", Some(resp.status)))
       ELSE IF resp.body = "garbage"
       THEN Step(e, p.state, Return("query", "FailedJsonParse", None))
       ELSE Step(e, p.state, Return("query", "Ok", None))

(***************************************************************************)
(* The state machine.                                                      *)
(***************************************************************************)
TokenState == << esi.access_token, esi.access_expiration, esi.refresh_token >>

NoArgs == [request_type |-> "none", method |-> "none", refresh_token |-> None,
           pkce_verifier |-> None, op_id |-> "none", token |-> None, builder |-> None,
           ids |-> None, body |-> None, random |-> None, seconds |-> None]
IdleTask == [pc |-> "idle", op |-> "none", args |-> NoArgs, req |-> NoReq,
             data |-> EmptyBody, recv |-> 0]
\* no response: what a step that handles none records
NoResponse == [transport |-> FALSE, status |-> 0, headers |-> NoHeaders, body |-> None]
NoReturn == [op |-> "none", args |-> NoArgs, out |-> "none",
             val |-> None, data |-> EmptyBody, recv |-> 0,
             status |-> 0, headers |-> NoHeaders, body |-> None]

\* no second instance.  origin tells how the second instance came about
\* ("built" by a builder of its own, "cloned" from the first); cell is the
\* tracker from_builder gave it, which a clone does not have
NoInstance == [origin |-> "none", cell |-> None]

\* no session yet: the variable esi before any build
NoSession == [client_id |-> None, client_secret |-> None, callback_url |-> None,
              application_auth |-> FALSE, access_token |-> None,
              access_expiration |-> None, refresh_token |-> None, spec |-> None]

\* EsiBuilder::build / Esi::from_builder: a configuration, seeded tokens,
\* no specification, an empty tracker; nothing in flight
Init ==
  /\ \E c \in Configs, k \in SeedTokens :
       esi = [client_id |-> c.client_id, client_secret |-> c.client_secret,
              callback_url |-> c.callback_url, application_auth |-> c.application_auth,
              access_token |-> k.access_token, access_expiration |-> k.access_expiration,
              refresh_token |-> k.refresh_token, spec |-> None]
  /\ error_limit_state = None
  /\ features \in [validate_jwt : BOOLEAN, random_state : {TRUE}]
  /\ now \in {PreEpoch, 0}
  /\ task = [t \in Tasks |-> IdleTask]
  /\ ret = NoReturn
  /\ other = NoInstance

\* a session that hands out `&mut self` while it is borrowed
ExclusiveUnchecked == TRUE
\* `&mut self`: the operation needs the session exclusively
Exclusive == \A u \in Tasks : task[u].pc = "idle"
\* `&self`: the operation may overlap other `&self` operations only
Shared == \A u \in Tasks : task[u].pc = "idle" \/ task[u].op = "query"

\* one step of caller t with arguments args, handling response resp (or
\* NoResponse): the struct and the tracker are written; the caller waits
\* for a response or gets its result.  ret records what the step handled
\* and returned (out = "pending" while the operation goes on).
Apply(t, args, resp, st) ==
  /\ ret = NoReturn
  /\ esi' = st.esi
  /\ error_limit_state' = st.els
  /\ task' = [task EXCEPT ![t] =
                IF st.task.pc = "idle" THEN IdleTask
                ELSE [pc |-> st.task.pc, op |-> st.task.op, args |-> args,
                      req |-> st.task.req, data |-> st.task.data, recv |-> st.task.recv]]
  /\ ret' = IF st.task.pc # "idle" /\ ~resp.transport THEN NoReturn
            ELSE [op |-> st.task.op, args |-> args, out |-> st.task.out,
                  val |-> st.task.val, data |-> st.task.data, recv |-> st.task.recv,
                  status |-> resp.status, headers |-> resp.headers, body |-> resp.body]
  /\ UNCHANGED << features, now, other >>

Tick ==
  /\ ret = NoReturn
  /\ now + TickMillis <= MaxNow
  /\ now' = now + TickMillis
  /\ ret' = NoReturn
  /\ UNCHANGED << esi, error_limit_state, features, task, other >>

UpdateSpecCall(t) ==
  /\ t \in Mutators /\ task[t].pc = "idle" /\ Exclusive
  /\ Apply(t, NoArgs, NoResponse, update_spec_call(esi, error_limit_state, now))

\* the response of the specification endpoint is one of `responses`
UpdateSpecRecvOf(t, responses) ==
  /\ task[t].pc = "update_spec:send"
  /\ \E resp \in responses :
       Apply(t, task[t].args, resp, update_spec_recv(esi, error_limit_state, now, resp))

UpdateSpecRecv(t) == UpdateSpecRecvOf(t, SpecResponses)

AuthenticateCall(t) ==
  /\ t \in Mutators /\ task[t].pc = "idle" /\ Exclusive
  /\ \E v \in VerifierArgs :
       Apply(t, [NoArgs EXCEPT !.pkce_verifier = v], NoResponse,
             authenticate_call(esi, error_limit_state, now, v))

AuthenticateRecv(t) ==
  /\ task[t].pc = "authenticate:send"
  /\ \E resp \in TokenResponses :
       Apply(t, task[t].args, resp, authenticate_recv(esi, error_limit_state, features, now, resp))

GetKeysUrlRecv(t) ==
  /\ task[t].pc = "authenticate:keys_url"
  /\ \E resp \in KeysUrlResponses :
       Apply(t, task[t].args, resp, get_keys_url_recv(esi, error_limit_state, task[t], resp))

GetRs256KeyRecv(t) ==
  /\ task[t].pc = "authenticate:jwks"
  /\ \E resp \in JwksResponses :
       Apply(t, task[t].args, resp, get_rs256_key_recv(esi, error_limit_state, task[t], now, resp))

RefreshCall(t) ==
  /\ t \in Mutators /\ task[t].pc = "idle" /\ Exclusive
  /\ \E r \in RefreshArgs :
       Apply(t, [NoArgs EXCEPT !.refresh_token = r], NoResponse,
             refresh_access_token_call(esi, error_limit_state, now, r))

\* the response of the token endpoint is one of `responses`
RefreshRecvOf(t, responses) ==
  /\ task[t].pc = "refresh_access_token:send"
  /\ \E resp \in responses :
       Apply(t, task[t].args, resp, refresh_access_token_recv(esi, error_limit_state, now, resp))

RefreshRecv(t) == RefreshRecvOf(t, TokenResponses)

QueryCall(t) ==
  /\ task[t].pc = "idle" /\ Shared
  /\ \E rt \in RequestTypes, m \in Methods :
       Apply(t, [NoArgs EXCEPT !.request_type = rt, !.method = m], NoResponse,
             query_call(esi, error_limit_state, now, rt, m))

\* the response of the endpoint is one of `responses`
QueryRecvOf(t, responses) ==
  /\ task[t].pc = "query:send"
  /\ \E resp \in responses :
       Apply(t, task[t].args, resp, query_recv(esi, error_limit_state, now, resp))

QueryRecv(t) == QueryRecvOf(t, ApiResponses)

\* query up to its local checks; callers on other threads run in between
QueryCheck(t) ==
  /\ task[t].pc = "idle" /\ Shared
  /\ \E rt \in RequestTypes, m \in Methods :
       Apply(t, [NoArgs EXCEPT !.request_type = rt, !.method = m], NoResponse,
             query_check(esi, error_limit_state, now, rt))

\* query from its local checks to the request on the wire; ret records the
\* step (out = "pending" when the request was sent)
QuerySend(t) ==
  /\ task[t].pc = "query:checked" /\ ret = NoReturn
  /\ LET st == query_send(esi, error_limit_state, now,
                          task[t].args.request_type, task[t].args.method) IN
     /\ esi' = st.esi
     /\ error_limit_state' = st.els
     /\ task' = [task EXCEPT ![t] =
                   IF st.task.pc = "idle" THEN IdleTask
                   ELSE [pc |-> st.task.pc, op |-> st.task.op, args |-> task[t].args,
                         req |-> st.task.req, data |-> st.task.data,
                         recv |-> st.task.recv]]
     /\ ret' = [op |-> st.task.op, args |-> task[t].args, out |-> st.task.out,
                val |-> st.task.val, data |-> st.task.data, recv |-> st.task.recv,
                status |-> 0, headers |-> NoHeaders, body |-> None]
  /\ UNCHANGED << features, now, other >>

\* the public Esi::is_error_limited, its answer kept as the caller's result
IsErrorLimited(t) ==
  /\ task[t].pc = "idle" /\ Shared
  /\ LET r == is_error_limited(error_limit_state, now) IN
     Apply(t, NoArgs, NoResponse, Step(esi, error_limit_state,
                           Return("is_error_limited", r.status, Some(r.for_millis))))

\* the synchronous Esi::get_authorize_url
GetAuthorizeUrl(t) ==
  /\ task[t].pc = "idle" /\ Shared
  /\ \E state \in StateValues(features), verifier \in PkceVerifiers :
       LET r == get_authorize_url(esi, state, verifier) IN
       Apply(t, NoArgs, NoResponse,
             Step(esi, error_limit_state, Return("get_authorize_url", r.out, r.val)))

\* the synchronous Esi::get_endpoint_for_op_id
GetEndpointForOpId(t) ==
  /\ task[t].pc = "idle" /\ Shared
  /\ \E op_id \in OpIds :
       LET r == get_endpoint_for_op_id(esi.spec, op_id) IN
       Apply(t, [NoArgs EXCEPT !.op_id = op_id], NoResponse,
             Step(esi, error_limit_state, Return("get_endpoint_for_op_id", r.out, r.val)))

TryGetEndpointCall(t) ==
  /\ t \in Mutators /\ task[t].pc = "idle" /\ Exclusive
  /\ \E op_id \in OpIds :
       Apply(t, [NoArgs EXCEPT !.op_id = op_id], NoResponse,
             try_get_endpoint_for_op_id_call(esi, error_limit_state, now, op_id))

TryGetEndpointRecv(t) ==
  /\ task[t].pc = "try_get_endpoint_for_op_id:send"
  /\ \E resp \in DocResponses :
       Apply(t, task[t].args, resp,
             try_get_endpoint_for_op_id_recv(esi, error_limit_state, now, resp,
                                             task[t].args.op_id))

\* the expiration authenticate / refresh_access_token compute for the
\* expires_in of a token response
StoreExpiration(t) ==
  /\ task[t].pc = "idle"
  /\ \E expires_in \in ExpiresIns :
       LET r == access_expiration(expires_in, now, features.overflow_checks) IN
       Apply(t, [NoArgs EXCEPT !.seconds = Some(expires_in)], NoResponse,
             Step(esi, error_limit_state, Return("access_expiration", r.out, r.val)))

\* the expiry process_error_limit_headers computes for a reset header
StoreExpiry(t) ==
  /\ task[t].pc = "idle"
  /\ \E resets_in \in ResetsIns :
       LET r == expires_at_millis(resets_in, now, features.overflow_checks) IN
       Apply(t, [NoArgs EXCEPT !.seconds = Some(resets_in)], NoResponse,
             Step(esi, error_limit_state, Return("expires_at_millis", r.out, r.val)))

\* pkce::generate, the random bytes being any of RandomBytes
Generate(t) ==
  /\ task[t].pc = "idle"
  /\ \E random \in RandomBytes :
       Apply(t, [NoArgs EXCEPT !.random = Some(random)], NoResponse,
             Step(esi, error_limit_state,
                  Return("generate", "Ok", Some(pkce_generate(random)))))

\* a second session from a builder of its own: from_builder gives it a
\* tracker of its own
BuildOther ==
  /\ ret = NoReturn /\ other = NoInstance
  /\ other' = [origin |-> "built", cell |-> None]
  /\ UNCHANGED << esi, error_limit_state, features, now, task, ret >>

\* #[derive(Clone)]: the clone of the Arc points to the tracker of the first
Clone ==
  /\ ret = NoReturn /\ other = NoInstance
  /\ other' = [origin |-> "cloned", cell |-> None]
  /\ UNCHANGED << esi, error_limit_state, features, now, task, ret >>

\* the tracker the second instance reads and writes
OtherTracker == IF other.origin = "cloned" THEN error_limit_state ELSE other.cell

\* one step of caller t on the second instance: as Apply, the tracker
\* written being the one the second instance points to
OtherApply(t, args, resp, st) ==
  /\ ret = NoReturn
  /\ IF other.origin = "cloned"
     THEN error_limit_state' = st.els /\ other' = other
     ELSE other' = [other EXCEPT !.cell = st.els] /\ error_limit_state' = error_limit_state
  /\ task' = [task EXCEPT ![t] =
                IF st.task.pc = "idle" THEN IdleTask
                ELSE [pc |-> st.task.pc, op |-> st.task.op, args |-> args,
                      req |-> st.task.req, data |-> st.task.data, recv |-> st.task.recv]]
  /\ ret' = IF st.task.pc # "idle" /\ ~resp.transport THEN NoReturn
            ELSE [op |-> st.task.op, args |-> args, out |-> st.task.out,
                  val |-> st.task.val, data |-> st.task.data, recv |-> st.task.recv,
                  status |-> resp.status, headers |-> resp.headers, body |-> resp.body]
  /\ UNCHANGED << esi, features, now >>

\* query on the second instance (its fields are those of the first)
OtherQueryCall(t) ==
  /\ other # NoInstance /\ task[t].pc = "idle"
  /\ \E rt \in RequestTypes, m \in Methods :
       OtherApply(t, [NoArgs EXCEPT !.request_type = rt, !.method = m], NoResponse,
                  query_call(esi, OtherTracker, now, rt, m))

OtherQueryRecv(t) ==
  /\ other # NoInstance /\ task[t].pc = "query:send"
  /\ \E resp \in ApiResponses :
       OtherApply(t, task[t].args, resp, query_recv(esi, OtherTracker, now, resp))

\* a call of a function generated by api_post!; args records what the
\* function hands to query
ApiPost(t) ==
  /\ task[t].pc = "idle" /\ Shared
  /\ \E op_id \in OpIds, rt \in RequestTypes, ids \in IdLists :
       Apply(t, [NoArgs EXCEPT !.op_id = op_id, !.request_type = rt,
                               !.method = api_post_method, !.ids = Some(ids),
                               !.body = Some(to_string(ids))],
             NoResponse,
             api_post_call(esi, error_limit_state, now, op_id, rt, ids))

\* EsiBuilder::build of some builder, while no session exists; the session
\* it returns becomes the session
Build(t) ==
  /\ task[t].pc = "idle" /\ esi = NoSession
  /\ \E builder \in Builders :
       LET r == from_builder(builder) IN
       Apply(t, [NoArgs EXCEPT !.builder = Some(builder)], NoResponse,
             Step(IF r.out = "Ok" THEN Unwrap(r.esi) ELSE esi,
                  IF r.out = "Ok" THEN r.els ELSE error_limit_state,
                  Return("build", r.out, r.val)))

\* jwt_util::validate on some token, for the client id of the session
ValidateJwt(t) ==
  /\ task[t].pc = "idle" /\ Shared
  /\ \E token \in JwtTokens :
       LET r == validate(token, Unwrap(esi.client_id), now) IN
       Apply(t, [NoArgs EXCEPT !.token = Some(token)], NoResponse,
             Step(esi, error_limit_state, Return("validate", r.out, r.val)))

\* the caller takes the value its operation returned
Resume ==
  /\ ret # NoReturn
  /\ ret' = NoReturn
  /\ UNCHANGED << esi, error_limit_state, features, now, task, other >>

Next ==
  \/ Tick
  \/ Resume
  \/ \E t \in Tasks : UpdateSpecCall(t)
  \/ \E t \in Tasks : UpdateSpecRecv(t)
  \/ \E t \in Tasks : AuthenticateCall(t)
  \/ \E t \in Tasks : AuthenticateRecv(t)
  \/ \E t \in Tasks : GetKeysUrlRecv(t)
  \/ \E t \in Tasks : GetRs256KeyRecv(t)
  \/ \E t \in Tasks : RefreshCall(t)
  \/ \E t \in Tasks : RefreshRecv(t)
  \/ \E t \in Tasks : QueryCall(t)
  \/ \E t \in Tasks : QueryRecv(t)
  \/ \E t \in Tasks : IsErrorLimited(t)

Spec == Init /\ [][Next]_vars

(***************************************************************************)
(* The authorization flow set-up: get_authorize_url on a session built     *)
(* from any combination of client_id, client_secret, callback_url and      *)
(* PKCE mode, with and without the feature random_state.                   *)
(***************************************************************************)
InitAuthorize ==
  /\ \E c \in AllConfigs, k \in SeedTokens :
       esi = [client_id |-> c.client_id, client_secret |-> c.client_secret,
              callback_url |-> c.callback_url, application_auth |-> c.application_auth,
              access_token |-> k.access_token, access_expiration |-> k.access_expiration,
              refresh_token |-> k.refresh_token, spec |-> None]
  /\ error_limit_state = None
  /\ features \in [validate_jwt : {FALSE}, random_state : BOOLEAN]
  /\ now \in {PreEpoch, 0}
  /\ task = [t \in Tasks |-> IdleTask]
  /\ ret = NoReturn
  /\ other = NoInstance

NextAuthorize ==
  \/ Tick
  \/ Resume
  \/ \E t \in Tasks : GetAuthorizeUrl(t)

SpecAuthorize == InitAuthorize /\ [][NextAuthorize]_vars

(***************************************************************************)
(* The specification store: update_spec, get_endpoint_for_op_id and        *)
(* try_get_endpoint_for_op_id on a session built with or without a         *)
(* specification (EsiBuilder::spec), against a specification endpoint that *)
(* serves every kind of document.                                          *)
(***************************************************************************)
InitResolve ==
  /\ \E spec \in {None} \cup {Some(d) : d \in Docs} :
       esi = [client_id |-> Some("id"), client_secret |-> Some("secret"),
              callback_url |-> Some("cb"), application_auth |-> FALSE,
              access_token |-> None, access_expiration |-> None,
              refresh_token |-> None, spec |-> spec]
  /\ error_limit_state = None
  /\ features = [validate_jwt |-> FALSE, random_state |-> TRUE]
  /\ now \in {PreEpoch, 0}
  /\ task = [t \in Tasks |-> IdleTask]
  /\ ret = NoReturn
  /\ other = NoInstance

NextResolve ==
  \/ Tick
  \/ Resume
  \/ \E t \in Tasks : UpdateSpecCall(t)
  \/ \E t \in Tasks : UpdateSpecRecvOf(t, DocResponses)
  \/ \E t \in Tasks : GetEndpointForOpId(t)
  \/ \E t \in Tasks : TryGetEndpointCall(t)
  \/ \E t \in Tasks : TryGetEndpointRecv(t)

SpecResolve == InitResolve /\ [][NextResolve]_vars

(***************************************************************************)
(* Callers on several threads: query in its two halves, the gate with the  *)
(* local checks and the sending, next to refresh_access_token, on a        *)
(* confidential session seeded with tokens.                                *)
(***************************************************************************)
InitRace ==
  /\ esi = [client_id |-> Some("id"), client_secret |-> Some("secret"),
            callback_url |-> Some("cb"), application_auth |-> FALSE,
            access_token |-> Some("at0"), access_expiration |-> Some(SeedExpiry),
            refresh_token |-> Some("rt0"), spec |-> None]
  /\ error_limit_state = None
  /\ features = [validate_jwt |-> FALSE, random_state |-> TRUE]
  /\ now = 0
  /\ task = [t \in Tasks |-> IdleTask]
  /\ ret = NoReturn
  /\ other = NoInstance

NextRace ==
  \/ Tick
  \/ Resume
  \/ \E t \in Tasks : QueryCheck(t)
  \/ \E t \in Tasks : QuerySend(t)
  \/ \E t \in Tasks : QueryRecv(t)
  \/ \E t \in Tasks : RefreshCall(t)
  \/ \E t \in Tasks : RefreshRecv(t)

SpecRace == InitRace /\ [][NextRace]_vars

(***************************************************************************)
(* Responses whose rate-limit headers cannot be read or parsed, to         *)
(* update_spec, refresh_access_token and query on a session with tokens.   *)
(***************************************************************************)
InitHeaders ==
  /\ \E spec \in {None, Some(DocAB)} :
       esi = [client_id |-> Some("id"), client_secret |-> Some("secret"),
              callback_url |-> Some("cb"), application_auth |-> FALSE,
              access_token |-> Some("at0"), access_expiration |-> Some(SeedExpiry),
              refresh_token |-> Some("rt0"), spec |-> spec]
  /\ error_limit_state = None
  /\ features = [validate_jwt |-> FALSE, random_state |-> TRUE]
  /\ now \in {PreEpoch, 0}
  /\ task = [t \in Tasks |-> IdleTask]
  /\ ret = NoReturn
  /\ other = NoInstance

NextHeaders ==
  \/ Tick
  \/ Resume
  \/ \E t \in Tasks : UpdateSpecCall(t)
  \/ \E t \in Tasks : UpdateSpecRecvOf(t, FaultyResponses({Some(DocNoPaths)}))
  \/ \E t \in Tasks : RefreshCall(t)
  \/ \E t \in Tasks : RefreshRecvOf(t, FaultyResponses({CHOOSE b \in TokenBodies :
                                                             IsSome(b.refresh_token)}))
  \/ \E t \in Tasks : QueryCall(t)
  \/ \E t \in Tasks : QueryRecvOf(t, FaultyResponses({"json"}))

SpecHeaders == InitHeaders /\ [][NextHeaders]_vars

(***************************************************************************)
(* The operations on `&self`: query, is_error_limited, get_authorize_url   *)
(* and get_endpoint_for_op_id, on sessions of every configuration, with    *)
(* and without tokens and specification.                                   *)
(***************************************************************************)
InitFrame ==
  /\ \E c \in Configs, k \in SeedTokens, spec \in {None, Some(DocAB)} :
       esi = [client_id |-> c.client_id, client_secret |-> c.client_secret,
              callback_url |-> c.callback_url, application_auth |-> c.application_auth,
              access_token |-> k.access_token, access_expiration |-> k.access_expiration,
              refresh_token |-> k.refresh_token, spec |-> spec]
  /\ error_limit_state = None
  /\ features = [validate_jwt |-> FALSE, random_state |-> TRUE]
  /\ now = 0
  /\ task = [t \in Tasks |-> IdleTask]
  /\ ret = NoReturn
  /\ other = NoInstance

NextFrame ==
  \/ Tick
  \/ Resume
  \/ \E t \in Tasks : QueryCall(t)
  \/ \E t \in Tasks : QueryRecv(t)
  \/ \E t \in Tasks : IsErrorLimited(t)
  \/ \E t \in Tasks : GetAuthorizeUrl(t)
  \/ \E t \in Tasks : GetEndpointForOpId(t)

SpecFrame == InitFrame /\ [][NextFrame]_vars

(***************************************************************************)
(* The two conversions on their own, in a build with and in a build        *)
(* without overflow checks.                                                *)
(***************************************************************************)
InitOverflow ==
  /\ esi = NoSession
  /\ error_limit_state = None
  /\ \E c \in BOOLEAN :
       features = [validate_jwt |-> FALSE, random_state |-> TRUE, overflow_checks |-> c]
  /\ now = 0
  /\ task = [t \in Tasks |-> IdleTask]
  /\ ret = NoReturn
  /\ other = NoInstance

NextOverflow ==
  \/ Tick
  \/ Resume
  \/ \E t \in Tasks : StoreExpiration(t)
  \/ \E t \in Tasks : StoreExpiry(t)

SpecOverflow == InitOverflow /\ [][NextOverflow]_vars

(***************************************************************************)
(* The PKCE generator on its own.                                          *)
(***************************************************************************)
InitPkce ==
  /\ esi = NoSession
  /\ error_limit_state = None
  /\ features = [validate_jwt |-> FALSE, random_state |-> TRUE]
  /\ now = 0
  /\ task = [t \in Tasks |-> IdleTask]
  /\ ret = NoReturn
  /\ other = NoInstance

NextPkce ==
  \/ Resume
  \/ \E t \in Tasks : Generate(t)

SpecPkce == InitPkce /\ [][NextPkce]_vars

(***************************************************************************)
(* Two sessions: the callers of Callers use the first, those of            *)
(* OtherCallers the second, which is built apart or cloned from the first. *)
(***************************************************************************)
Callers == {"t1"}
OtherCallers == Tasks \ Callers

InitClone ==
  /\ esi = [client_id |-> Some("id"), client_secret |-> Some("secret"),
            callback_url |-> Some("cb"), application_auth |-> FALSE,
            access_token |-> Some("at0"), access_expiration |-> Some(SeedExpiry),
            refresh_token |-> Some("rt0"), spec |-> None]
  /\ error_limit_state = None
  /\ features = [validate_jwt |-> FALSE, random_state |-> TRUE]
  /\ now = 0
  /\ task = [t \in Tasks |-> IdleTask]
  /\ ret = NoReturn
  /\ other = NoInstance

NextClone ==
  \/ Tick
  \/ Resume
  \/ BuildOther
  \/ Clone
  \/ \E t \in Callers : QueryCall(t)
  \/ \E t \in Callers : QueryRecv(t)
  \/ \E t \in Callers : IsErrorLimited(t)
  \/ \E t \in OtherCallers : OtherQueryCall(t)
  \/ \E t \in OtherCallers : OtherQueryRecv(t)

SpecClone == InitClone /\ [][NextClone]_vars

(***************************************************************************)
(* The generated endpoint functions, on a session with or without a        *)
(* specification and with or without tokens.                               *)
(***************************************************************************)
InitWrapper ==
  /\ \E spec \in {None, Some(DocAB)}, k \in SeedTokens :
       esi = [client_id |-> Some("id"), client_secret |-> Some("secret"),
              callback_url |-> Some("cb"), application_auth |-> FALSE,
              access_token |-> k.access_token, access_expiration |-> k.access_expiration,
              refresh_token |-> k.refresh_token, spec |-> spec]
  /\ error_limit_state = None
  /\ features = [validate_jwt |-> FALSE, random_state |-> TRUE]
  /\ now = 0
  /\ task = [t \in Tasks |-> IdleTask]
  /\ ret = NoReturn
  /\ other = NoInstance

NextWrapper ==
  \/ Tick
  \/ Resume
  \/ \E t \in Tasks : ApiPost(t)
  \/ \E t \in Tasks : QueryRecv(t)

SpecWrapper == InitWrapper /\ [][NextWrapper]_vars

(***************************************************************************)
(* Construction: build on every builder.                                   *)
(***************************************************************************)
InitBuild ==
  /\ esi = NoSession
  /\ error_limit_state = None
  /\ features = [validate_jwt |-> FALSE, random_state |-> TRUE]
  /\ now = 0
  /\ task = [t \in Tasks |-> IdleTask]
  /\ ret = NoReturn
  /\ other = NoInstance

NextBuild ==
  \/ Resume
  \/ \E t \in Tasks : Build(t)

SpecBuild == InitBuild /\ [][NextBuild]_vars

(***************************************************************************)
(* The JWT validation: validate on every kind of token, for a session with *)
(* client id "id", at the instant JwtClock.                                *)
(***************************************************************************)
InitJwt ==
  /\ esi = [client_id |-> Some("id"), client_secret |-> Some("secret"),
            callback_url |-> Some("cb"), application_auth |-> FALSE,
            access_token |-> None, access_expiration |-> None,
            refresh_token |-> None, spec |-> None]
  /\ error_limit_state = None
  /\ features = [validate_jwt |-> TRUE, random_state |-> TRUE]
  /\ now = JwtClock
  /\ task = [t \in Tasks |-> IdleTask]
  /\ ret = NoReturn
  /\ other = NoInstance

NextJwt ==
  \/ Resume
  \/ \E t \in Tasks : ValidateJwt(t)

SpecJwt == InitJwt /\ [][NextJwt]_vars

(***************************************************************************)
(* Vocabulary of the properties.                                           *)
(***************************************************************************)
GatedOps == {"update_spec", "authenticate", "refresh_access_token", "query"}
TokenOps == {"authenticate", "refresh_access_token"}

\* the tracker holds remaining <= 0 and its expiry lies after / not before t
LimitedInFuture(state, t) ==
  /\ IsSome(state)
  /\ Unwrap(state).remaining_limit <= 0
  /\ Unwrap(state).expires_at_millis > t
LimitedNotPast(state, t) ==
  /\ IsSome(state)
  /\ Unwrap(state).remaining_limit <= 0
  /\ Unwrap(state).expires_at_millis >= t

\* this step is a call of operation op that returned without sending
ReturnsAtOnce(op) == ret = NoReturn /\ ret' # NoReturn /\ task' = task /\ ret'.op = op
\* this step is a call of operation op by t that put a request on the wire
Sends(t, op) == task[t].pc = "idle" /\ task'[t].pc # "idle" /\ task'[t].op = op
\* this step puts some request on the wire
SendsRequest == \E t \in Tasks : task'[t].req # NoReq /\ task'[t].req # task[t].req
\* this step handles a response for operation op
Handles(op) == ret = NoReturn /\ ret' # NoReturn /\ task' # task /\ ret'.op = op

\* this step is a call of query with the given request type
QueryCalled(request_type) ==
  \/ ReturnsAtOnce("query") /\ ret'.args.request_type = request_type
  \/ \E t \in Tasks : Sends(t, "query") /\ task'[t].args.request_type = request_type

\* the session is in the Expired state of the token state machine
Expired ==
  /\ IsSome(esi.access_token) /\ IsSome(esi.access_expiration)
  /\ now >= 0 /\ Unwrap(esi.access_expiration) < now

(***************************************************************************)
(* C1: a call of update_spec, authenticate, refresh_access_token or query  *)
(* made while the tracker holds remaining <= 0 with an expiry still in the *)
(* future returns ErrorLimited(expiry - now) and puts no request on the    *)
(* wire.                                                                   *)
(***************************************************************************)
C1_ErrorLimitGate ==
  [][ LimitedInFuture(error_limit_state, now) =>
        /\ \A t \in Tasks : task[t].pc = "idle" => task'[t].pc = "idle"
        /\ \A op \in GatedOps :
             ReturnsAtOnce(op) =>
               /\ ret'.out = "ErrorLimited"
               /\ ret'.val = Some(Unwrap(error_limit_state).expires_at_millis - now)
               /\ esi' = esi /\ error_limit_state' = error_limit_state ]_vars

C1_Witness ==
  /\ ret.op = "update_spec" /\ ret.out = "ErrorLimited"
  /\ LimitedInFuture(error_limit_state, now)

(***************************************************************************)
(* C2 as stated: an Authenticated query on a session without access_token  *)
(* returns MissingAuthentication and sends nothing.                        *)
(***************************************************************************)
C2_Original ==
  [][ QueryCalled("Authenticated") /\ IsNone(esi.access_token) =>
        ReturnsAtOnce("query") /\ ret'.out = "MissingAuthentication" ]_vars

(***************************************************************************)
(* C2 amended: an Authenticated query on a session without access_token    *)
(* sends nothing and returns MissingAuthentication, unless the error-limit *)
(* gate, which runs first, rejects the call with ErrorLimited.             *)
(***************************************************************************)
C2_MissingAuthentication ==
  [][ QueryCalled("Authenticated") /\ IsNone(esi.access_token) =>
        /\ ReturnsAtOnce("query")
        /\ ret'.out = IF LimitedNotPast(error_limit_state, now)
                      THEN "ErrorLimited" ELSE "MissingAuthentication"
        /\ esi' = esi /\ error_limit_state' = error_limit_state ]_vars

C2_Witness ==
  /\ ret.op = "query" /\ ret.out = "MissingAuthentication"
  /\ ret.args.request_type = "Authenticated" /\ IsNone(esi.access_token)

(***************************************************************************)
(* C3 as stated: an Authenticated query on an Expired session returns      *)
(* AccessTokenExpired, sends nothing and leaves TokenState as it is; only  *)
(* authenticate and refresh_access_token change TokenState.                *)
(***************************************************************************)
C3_Original ==
  [][ /\ QueryCalled("Authenticated") /\ Expired =>
          ReturnsAtOnce("query") /\ ret'.out = "AccessTokenExpired" /\ TokenState' = TokenState
      /\ TokenState' # TokenState => \E op \in TokenOps : Handles(op) ]_vars

(***************************************************************************)
(* C3 amended: an Authenticated query on an Expired session sends nothing, *)
(* leaves TokenState as it is and returns AccessTokenExpired, unless the   *)
(* error-limit gate, which runs first, rejects the call with ErrorLimited; *)
(* only authenticate and refresh_access_token change TokenState.           *)
(***************************************************************************)
C3_AccessTokenExpired ==
  [][ /\ QueryCalled("Authenticated") /\ Expired =>
          /\ ReturnsAtOnce("query")
          /\ ret'.out = IF LimitedNotPast(error_limit_state, now)
                        THEN "ErrorLimited" ELSE "AccessTokenExpired"
          /\ ~SendsRequest
          /\ TokenState' = TokenState
      /\ TokenState' # TokenState => \E op \in TokenOps : Handles(op) ]_vars

C3_Witness ==
  /\ ret.op = "query" /\ ret.out = "AccessTokenExpired"
  /\ ret.args.request_type = "Authenticated" /\ Expired

(***************************************************************************)
(* C4: in every reachable state, access_token set implies                  *)
(* access_expiration set.                                                  *)
(***************************************************************************)
C4_TokenInvariant ==
  IsSome(esi.access_token) => IsSome(esi.access_expiration)

(***************************************************************************)
(* C5: when authenticate or refresh_access_token returns, either it        *)
(* returns Ok and all three token fields come from the response, or it     *)
(* returns an error and all three are what they were; a step of these      *)
(* operations that does not return changes none of them.                   *)
(***************************************************************************)
C5_AtomicTokenState ==
  [][ \A op \in TokenOps :
        /\ (ReturnsAtOnce(op) \/ Handles(op)) =>
              IF ret'.out = "Ok"
              THEN /\ esi'.access_token = ret'.data.access_token
                   /\ esi'.access_expiration =
                        Some(Unwrap(ret'.data.expires_in) * MillisPerSec + now)
                   /\ esi'.refresh_token = ret'.data.refresh_token
              ELSE TokenState' = TokenState
        /\ (\E t \in Tasks : Sends(t, op)) => TokenState' = TokenState ]_vars

(***************************************************************************)
(* C6: after a successful authenticate or refresh_access_token,            *)
(* access_token is the response's, access_expiration is the instant the    *)
(* response was received plus expires_in * 1000, and refresh_token is the  *)
(* response's (None for a null one).                                       *)
(***************************************************************************)
C6_StoredTokens ==
  [][ \A op \in TokenOps :
        Handles(op) /\ ret'.out = "Ok" /\ ret'.recv >= 0 =>
          /\ esi'.access_token = ret'.data.access_token
          /\ esi'.access_expiration =
               Some(ret'.recv + Unwrap(ret'.data.expires_in) * MillisPerSec)
          /\ esi'.refresh_token = ret'.data.refresh_token ]_vars

(***************************************************************************)
(* C7 as stated: a refresh request carries the supplied refresh token if   *)
(* one is given, else the stored one; with neither, the call returns       *)
(* NoRefreshTokenAvailable, sends nothing and leaves TokenState unchanged. *)
(***************************************************************************)
RefreshTokenSent(t, arg) ==
  {f \in task'[t].req.form : f[1] = "refresh_token"} =
    {<<"refresh_token", IF IsSome(arg) THEN Unwrap(arg) ELSE Unwrap(esi.refresh_token)>>}

C7_Original ==
  [][ /\ \A t \in Tasks : Sends(t, "refresh_access_token") =>
            RefreshTokenSent(t, task'[t].args.refresh_token)
      /\ \A t \in Tasks : Sends(t, "refresh_access_token")
            => IsSome(task'[t].args.refresh_token) \/ IsSome(esi.refresh_token)
      /\ ReturnsAtOnce("refresh_access_token")
           /\ IsNone(ret'.args.refresh_token) /\ IsNone(esi.refresh_token)
           => ret'.out = "NoRefreshTokenAvailable" /\ TokenState' = TokenState ]_vars

(***************************************************************************)
(* C7 amended: a refresh request carries the supplied refresh token if one *)
(* is given, else the stored one; with neither, the call sends nothing,    *)
(* leaves TokenState unchanged and returns NoRefreshTokenAvailable, unless *)
(* the error-limit gate, which runs first, rejects it with ErrorLimited.   *)
(***************************************************************************)
C7_RefreshTokenChoice ==
  [][ /\ \A t \in Tasks : Sends(t, "refresh_access_token") =>
            RefreshTokenSent(t, task'[t].args.refresh_token)
      /\ \A t \in Tasks : Sends(t, "refresh_access_token")
            => IsSome(task'[t].args.refresh_token) \/ IsSome(esi.refresh_token)
      /\ ReturnsAtOnce("refresh_access_token")
           /\ IsNone(ret'.args.refresh_token) /\ IsNone(esi.refresh_token)
           => /\ ret'.out = IF LimitedNotPast(error_limit_state, now)
                            THEN "ErrorLimited" ELSE "NoRefreshTokenAvailable"
              /\ TokenState' = TokenState ]_vars

C7_Witness ==
  /\ task["t1"].pc = "refresh_access_token:send"
  /\ task["t1"].args.refresh_token = Some("rtX")
  /\ esi.refresh_token = Some("rt0")
  /\ <<"refresh_token", "rtX">> \in task["t1"].req.form

(***************************************************************************)
(* C8 as stated: is_error_limited returns Limited{for_millis} exactly when *)
(* a state is stored with remaining <= 0 and an expiry strictly in the     *)
(* future, with for_millis = expiry - now and 0 <= for_millis <=           *)
(* reset_seconds * 1000; otherwise it returns NotLimited.                  *)
(***************************************************************************)
C8_Original ==
  [][ ReturnsAtOnce("is_error_limited") =>
        IF LimitedInFuture(error_limit_state, now)
        THEN /\ ret'.out = "Limited"
             /\ ret'.val = Some(Unwrap(error_limit_state).expires_at_millis - now)
             /\ Unwrap(ret'.val) >= 0
             /\ Unwrap(ret'.val) <= Unwrap(error_limit_state).resets_in * MillisPerSec
        ELSE ret'.out = "NotLimited" ]_vars

(***************************************************************************)
(* C8 amended: is_error_limited returns Limited{for_millis} exactly when a *)
(* state is stored with remaining <= 0 and an expiry that has not passed   *)
(* (expiry >= now, so also at the very instant of expiry, with             *)
(* for_millis = 0), with for_millis = expiry - now and 0 <= for_millis <=  *)
(* reset_seconds * 1000; otherwise it returns NotLimited.                  *)
(***************************************************************************)
C8_IsErrorLimited ==
  [][ ReturnsAtOnce("is_error_limited") =>
        IF LimitedNotPast(error_limit_state, now)
        THEN /\ ret'.out = "Limited"
             /\ ret'.val = Some(Unwrap(error_limit_state).expires_at_millis - now)
             /\ Unwrap(ret'.val) >= 0
             /\ Unwrap(ret'.val) <= Unwrap(error_limit_state).resets_in * MillisPerSec
        ELSE ret'.out = "NotLimited" ]_vars

C8_Witness ==
  /\ ret.op = "is_error_limited" /\ ret.out = "Limited" /\ ret.val = Some(0)
  /\ IsSome(error_limit_state) /\ Unwrap(error_limit_state).expires_at_millis = now

(***************************************************************************)
(* C9: a step that processes a response's rate-limit headers replaces the  *)
(* tracker state by {remaining, now + reset * 1000} of that one response   *)
(* when both headers are present (and numeric), also while another request *)
(* is in flight; when either header is absent the state stays as it was.   *)
(***************************************************************************)
\* the response handled in this step went through process_error_limit_headers
HeadersProcessed ==
  /\ ret = NoReturn /\ ret' # NoReturn /\ ret'.status # 0
  /\ \/ ret'.op \in {"update_spec", "refresh_access_token", "query"}
     \/ ret'.op = "authenticate" /\ ret'.status = 200
BothNumeric(headers) ==
  /\ IsSome(headers.remain) /\ IsSome(headers.reset)
  /\ ParseOk(Unwrap(headers.remain)) /\ ParseOk(Unwrap(headers.reset))

C9_WholesaleReplace ==
  [][ HeadersProcessed =>
        /\ BothNumeric(ret'.headers) /\ now >= 0 =>
             /\ IsSome(error_limit_state')
             /\ Unwrap(error_limit_state').remaining_limit = ParseInt(Unwrap(ret'.headers.remain))
             /\ Unwrap(error_limit_state').expires_at_millis =
                  now + ParseInt(Unwrap(ret'.headers.reset)) * MillisPerSec
        /\ IsNone(ret'.headers.remain) \/ IsNone(ret'.headers.reset) =>
             error_limit_state' = error_limit_state ]_vars

C9_Witness ==
  /\ ret.op = "query" /\ ret.headers = Headers(Some("100"), Some("2"))
  /\ task["t2"].pc = "query:send"
  /\ IsSome(error_limit_state)
  /\ Unwrap(error_limit_state).remaining_limit = 100
  /\ Unwrap(error_limit_state).expires_at_millis = now + 2 * MillisPerSec

(***************************************************************************)
(* C10: every response received by update_spec, authenticate,              *)
(* refresh_access_token or query that carries both rate-limit headers      *)
(* updates the tracker, whatever its status.                               *)
(***************************************************************************)
C10_UpdatedRegardlessOfStatus ==
  [][ \A op \in GatedOps :
        Handles(op) /\ ret'.status # 0 /\ BothNumeric(ret'.headers) /\ now >= 0 =>
          /\ IsSome(error_limit_state')
          /\ Unwrap(error_limit_state').remaining_limit = ParseInt(Unwrap(ret'.headers.remain))
          /\ Unwrap(error_limit_state').expires_at_millis =
               now + ParseInt(Unwrap(ret'.headers.reset)) * MillisPerSec ]_vars

(***************************************************************************)
(* Vocabulary of the authorization URL.                                    *)
(***************************************************************************)
\* the values the URL url carries for the query parameter key
Param(url, key) == { url[i][2] : i \in { j \in DOMAIN url : url[j][1] = key } }
\* the session is in PKCE (public-client) mode / confidential-client mode
PkceMode == esi.application_auth /\ IsNone(esi.client_secret)
ConfidentialMode == ~esi.application_auth /\ IsSome(esi.client_secret)
\* this step is a call of get_authorize_url
AuthorizeUrlCalled == ReturnsAtOnce("get_authorize_url")

(***************************************************************************)
(* C11: get_authorize_url (through the client-info check) fails with       *)
(* EmptyClientValue("client_id") when client_id is absent, else with       *)
(* EmptyClientValue("callback_url") when callback_url is absent, else with *)
(* MissingAuthenticationFlowInformation unless exactly one of client       *)
(* secret and PKCE mode is set; in every other configuration it succeeds.  *)
(***************************************************************************)
C11_ClientInfoCheck ==
  [][ AuthorizeUrlCalled =>
        /\ esi' = esi
        /\ IF IsNone(esi.client_id)
           THEN ret'.out = "EmptyClientValue" /\ ret'.val = Some("client_id")
           ELSE IF IsNone(esi.callback_url)
           THEN ret'.out = "EmptyClientValue" /\ ret'.val = Some("callback_url")
           ELSE IF IsSome(esi.client_secret) = esi.application_auth
           THEN ret'.out = "MissingAuthenticationFlowInformation"
           ELSE ret'.out = "Ok" ]_vars

\* both a client secret and PKCE mode: the call has failed
C11_Witness ==
  /\ ret.op = "get_authorize_url" /\ ret.out = "MissingAuthenticationFlowInformation"
  /\ IsSome(esi.client_id) /\ IsSome(esi.callback_url)
  /\ IsSome(esi.client_secret) /\ esi.application_auth

(***************************************************************************)
(* C12: a successful get_authorize_url returns a PKCE verifier, and its    *)
(* URL carries code_challenge (the S256 challenge of that verifier) and    *)
(* code_challenge_method=S256, exactly when the session is in PKCE mode;   *)
(* in confidential-client mode the verifier is absent and the URL carries  *)
(* neither; in both modes the URL carries response_type=code, the          *)
(* redirect_uri, the client_id, the scope and the state it returns.        *)
(***************************************************************************)
C12_AuthorizeUrl ==
  [][ AuthorizeUrlCalled /\ ret'.out = "Ok" =>
        LET info == Unwrap(ret'.val)
            url == info.authorization_url
        IN
        /\ PkceMode \/ ConfidentialMode
        /\ PkceMode =>
             /\ IsSome(info.pkce_verifier)
             /\ Param(url, "code_challenge") = {S256(Unwrap(info.pkce_verifier))}
             /\ Param(url, "code_challenge_method") = {"S256"}
        /\ ConfidentialMode =>
             /\ IsNone(info.pkce_verifier)
             /\ Param(url, "code_challenge") = {}
             /\ Param(url, "code_challenge_method") = {}
        /\ Param(url, "response_type") = {"code"}
        /\ Param(url, "redirect_uri") = {Unwrap(esi.callback_url)}
        /\ Param(url, "client_id") = {Unwrap(esi.client_id)}
        /\ Param(url, "scope") = {"scope"}
        /\ Param(url, "state") = {info.state}
        /\ info.state \in StateValues(features) ]_vars

\* a PKCE session has been handed its verifier and a random state
C12_Witness ==
  /\ ret.op = "get_authorize_url" /\ ret.out = "Ok" /\ PkceMode
  /\ Unwrap(ret.val).pkce_verifier = Some("verifier2")
  /\ Unwrap(ret.val).state = "state2"

(***************************************************************************)
(* C13: every request authenticate or refresh_access_token sends to the    *)
(* token endpoint uses exactly one credential mechanism: in PKCE mode the  *)
(* form carries client_id (and code_verifier, for authenticate) and there  *)
(* is no Basic Authorization header; in confidential-client mode the Basic *)
(* header of client_id:client_secret is sent and the form carries neither  *)
(* client_id nor code_verifier.                                            *)
(***************************************************************************)
FormKeys(req) == { f[1] : f \in req.form }

C13_OneCredentialMechanism ==
  [][ \A t \in Tasks : \A op \in TokenOps :
        Sends(t, op) =>
          LET req == task'[t].req IN
          /\ req.url = "token_url"
          /\ PkceMode \/ ConfidentialMode
          /\ PkceMode =>
               /\ req.authorization = None
               /\ <<"client_id", Unwrap(esi.client_id)>> \in req.form
               /\ op = "authenticate" =>
                    <<"code_verifier", Unwrap(task'[t].args.pkce_verifier)>> \in req.form
          /\ ConfidentialMode =>
               /\ req.authorization =
                    Some(<<"Basic", Unwrap(esi.client_id), Unwrap(esi.client_secret)>>)
               /\ "client_id" \notin FormKeys(req)
               /\ "code_verifier" \notin FormKeys(req) ]_vars

\* a PKCE session has its authenticate request on the wire
C13_Witness ==
  /\ task["t1"].pc = "authenticate:send" /\ PkceMode
  /\ task["t1"].req.authorization = None
  /\ {"client_id", "code_verifier"} \subseteq FormKeys(task["t1"].req)

(***************************************************************************)
(* Vocabulary of the specification documents.                              *)
(***************************************************************************)
\* the stored document has the expected shape
WellFormed(doc) ==
  /\ IsSome(doc.paths)
  /\ \A i \in DOMAIN Unwrap(doc.paths) : IsSome(Unwrap(doc.paths)[i].obj)
\* the path entry has a method with the operation id
Matches(entry, op_id) ==
  /\ IsSome(entry.obj)
  /\ \E j \in DOMAIN Unwrap(entry.obj) : Unwrap(entry.obj)[j].operationId = Some(op_id)
Contains(doc, op_id) ==
  /\ IsSome(doc.paths)
  /\ \E i \in DOMAIN Unwrap(doc.paths) : Matches(Unwrap(doc.paths)[i], op_id)
\* the path string of the first entry with the operation id
FirstMatch(doc, op_id) ==
  LET paths == Unwrap(doc.paths)
      first == CHOOSE i \in DOMAIN paths :
                 /\ Matches(paths[i], op_id)
                 /\ \A j \in DOMAIN paths : j < i => ~Matches(paths[j], op_id)
  IN paths[first].path
\* this step is a resolution of an operation id against the stored document
Resolved ==
  /\ IsSome(esi.spec)
  /\ \/ ReturnsAtOnce("get_endpoint_for_op_id")
     \/ ReturnsAtOnce("try_get_endpoint_for_op_id")
\* processing these headers at clock t fails
HeaderFailure(headers, t) ==
  /\ IsSome(headers.remain) /\ IsSome(headers.reset)
  /\ ~ParseOk(Unwrap(headers.remain)) \/ ~ParseOk(Unwrap(headers.reset)) \/ t < 0

(***************************************************************************)
(* C14: resolving an operation id that a loaded well-formed specification  *)
(* contains returns the path of the first path/method pair with that       *)
(* operationId, without its leading "/".                                   *)
(***************************************************************************)
C14_FirstMatchStripped ==
  [][ Resolved /\ WellFormed(Unwrap(esi.spec))
        /\ Contains(Unwrap(esi.spec), ret'.args.op_id) =>
          /\ ret'.out = "Ok"
          /\ << "/" >> \o Unwrap(ret'.val) = FirstMatch(Unwrap(esi.spec), ret'.args.op_id) ]_vars

\* op_b stands under both paths of the document: the first one is returned
C14_Witness ==
  /\ ret.op = "get_endpoint_for_op_id" /\ ret.out = "Ok"
  /\ esi.spec = Some(DocDup) /\ ret.args.op_id = "op_b"
  /\ ret.val = Some(<< "a", "/", "{id}" >>)

(***************************************************************************)
(* C15: resolving an operation id that occurs nowhere in a loaded          *)
(* well-formed specification returns UnknownOperationID with that id,      *)
(* never FailedSpecParse or EmptySpec.                                     *)
(***************************************************************************)
C15_UnknownOperation ==
  [][ Resolved /\ WellFormed(Unwrap(esi.spec))
        /\ ~Contains(Unwrap(esi.spec), ret'.args.op_id) =>
          /\ ret'.out = "UnknownOperationID"
          /\ ret'.val = Some(ret'.args.op_id) ]_vars

C15_Witness ==
  /\ ret.op = "get_endpoint_for_op_id" /\ ret.out = "UnknownOperationID"
  /\ esi.spec = Some(DocEmpty) /\ ret.args.op_id = "missing_op"

(***************************************************************************)
(* C16: resolving any operation id against a loaded document that has not  *)
(* the expected shape (`paths` missing or no object, or some path entry    *)
(* that is no object, wherever it stands) returns FailedSpecParse, never a *)
(* path and never UnknownOperationID.                                      *)
(***************************************************************************)
C16_MalformedSpec ==
  [][ Resolved /\ ~WellFormed(Unwrap(esi.spec)) => ret'.out = "FailedSpecParse" ]_vars

C20_NoPanic == ret.out # "Panic"

(***************************************************************************)
(* C21: nothing is retried.  A caller of query, update_spec or             *)
(* refresh_access_token that has its request on the wire returns at its    *)
(* next step, whatever the response; a caller of authenticate returns or   *)
(* goes on to the key requests of the JWT validation, never to a second    *)
(* token-endpoint request.                                                 *)
(***************************************************************************)
C21_NoRetry ==
  [][ /\ \A t \in Tasks :
            task[t].pc # "idle" /\ task'[t] # task[t] =>
              \/ task'[t].pc = "idle"
              \/ /\ task[t].op = "authenticate" /\ task'[t].op = "authenticate"
                 /\ task'[t].req # task[t].req
                 /\ task'[t].req.url \in {"TOKEN_AUTH_INFO_URL", "jwks_uri"}
      /\ ret'.out = "pending" => ret'.op = "authenticate" /\ task' # task ]_vars

\* a query has been answered with 420 and has returned; nothing is in flight
C21_Witness ==
  /\ ret.op = "query" /\ ret.out = "InvalidStatusCode" /\ ret.status = 420
  /\ \A t \in Tasks : task[t].pc = "idle"

(***************************************************************************)
(* C28: authenticate and refresh_access_token, called on a session whose   *)
(* client information fails the client-info check, return the error of     *)
(* that check and send nothing.  (Stated for a tracker that is not limited *)
(* and, for refresh_access_token, a refresh token at hand.)                *)
(***************************************************************************)
C28_ClientInfoFirst ==
  [][ \A op \in TokenOps :
        /\ ReturnsAtOnce(op) \/ \E t \in Tasks : Sends(t, op)
        /\ check_client_info(esi).out # "Ok"
        /\ ~LimitedNotPast(error_limit_state, now)
        /\ ReturnsAtOnce("refresh_access_token") =>
             IsSome(ret'.args.refresh_token) \/ IsSome(esi.refresh_token)
        => /\ ReturnsAtOnce(op)
           /\ ret'.out = check_client_info(esi).out
           /\ ret'.val = check_client_info(esi).val ]_vars

(***************************************************************************)
(* Vocabulary of the JWT validation.                                       *)
(***************************************************************************)
\* this step is a call of validate; the token it was called with
ValidateCalled == ReturnsAtOnce("validate")
\* the token is signed, carries a sub and the other claims, has not expired
\* at clock t and names the client id among its audiences
OtherwiseValid(token, client_id, t) ==
  /\ token.signed /\ IsSome(token.sub) /\ token.rest
  /\ token.exp >= t \div MillisPerSec
  /\ client_id \in Elems(token.aud)

(***************************************************************************)
(* C22: a token that is valid otherwise is accepted with the issuer        *)
(* "login.eveonline.com" and with "https://login.eveonline.com" alike, the *)
(* claims returned being those of the token; with every other issuer       *)
(* string it is rejected with InvalidJWT.                                  *)
(***************************************************************************)
C22_IssuerStrings ==
  [][ ValidateCalled =>
        LET token == Unwrap(ret'.args.token) IN
        OtherwiseValid(token, Unwrap(esi.client_id), now) /\ IsSome(token.iss) =>
          IF Unwrap(token.iss) \in {"login.eveonline.com", "https://login.eveonline.com"}
          THEN /\ ret'.out = "Ok"
               /\ ret'.val = Some([aud |-> token.aud, exp |-> token.exp,
                                    iss |-> Unwrap(token.iss), sub |-> Unwrap(token.sub)])
          ELSE ret'.out = "InvalidJWT" ]_vars

\* a valid token with the issuer that has the scheme has been accepted
C22_Witness ==
  /\ ret.op = "validate" /\ ret.out = "Ok"
  /\ Unwrap(ret.args.token).iss = Some("https://login.eveonline.com")
  /\ Unwrap(ret.val).iss = "https://login.eveonline.com"

(***************************************************************************)
(* C23: validation fails for every token whose audience list does not      *)
(* contain the client id, and for every token whose exp is in the past.    *)
(***************************************************************************)
C23_AudienceAndExpiry ==
  [][ ValidateCalled =>
        LET token == Unwrap(ret'.args.token) IN
        \/ Unwrap(esi.client_id) \notin Elems(token.aud)
        \/ token.exp < now \div MillisPerSec
        => ret'.out # "Ok" ]_vars

C25_AdvisoryGate ==
  [][ \A t \in Tasks :
        /\ task[t].pc = "idle" /\ task'[t].pc = "query:checked" =>
             ~LimitedNotPast(error_limit_state, now)
        /\ task[t].pc # "query:send" /\ task'[t].pc = "query:send" =>
             task[t].pc = "query:checked"
        /\ task[t].pc = "query:checked" /\ task'[t] # task[t] =>
             IF task[t].args.method = ""
             THEN task'[t].pc = "idle" /\ ret'.out = "HttpMethodError"
             ELSE task'[t].pc = "query:send" /\ task'[t].req.url = "base_api_url" ]_vars

\* a caller has just sent its request although the tracker is Limited
C25_Witness ==
  /\ ret.op = "query" /\ ret.out = "pending" /\ ret.status = 0
  /\ LimitedInFuture(error_limit_state, now)
  /\ \E t \in Tasks : task[t].pc = "query:send" /\ task[t].args = ret.args

JsonArrayOf(ids, text) ==
  /\ Len(text) = (IF ids = << >> THEN 2 ELSE 2 * Len(ids) + 1)
  /\ text[1] = "[" /\ text[Len(text)] = "]"
  /\ \A i \in DOMAIN ids :
       /\ ParseOk(text[2 * i]) /\ ParseInt(text[2 * i]) = ids[i]
       /\ i > 1 => text[2 * i - 1] = ","

(***************************************************************************)
(* C30: the request a function generated by api_post! sends is a POST      *)
(* request whose body is the JSON text of the body argument.               *)
(***************************************************************************)
C30_PostWithBody ==
  [][ \A t \in Tasks :
        Sends(t, "query") /\ task'[t].args.op_id # "none" =>
          /\ task'[t].args.method = "POST"
          /\ IsSome(task'[t].args.body)
          /\ JsonArrayOf(Unwrap(task'[t].args.ids), Unwrap(task'[t].args.body)) ]_vars

(***************************************************************************)
(* C27: the error-limit status the first session sees changes only in a    *)
(* step in which a caller of the first session handles a response (the     *)
(* clock standing still), whether the second session was built apart or    *)
(* cloned from the first.                                                  *)
(***************************************************************************)
C27_NoInterference ==
  [][ /\ now' = now
      /\ LimitedNotPast(error_limit_state', now) # LimitedNotPast(error_limit_state, now)
      => \E t \in Callers : task[t].pc = "query:send" /\ task'[t] # task[t] ]_vars

(***************************************************************************)
(* Vocabulary of the PKCE generator.                                       *)
(***************************************************************************)
\* the 6-bit value of a character of the base64url alphabet, 64 for any
\* other character (the padding character '=' among them)
Base64UrlValue(c) ==
  IF c >= 65 /\ c <= 90 THEN c - 65
  ELSE IF c >= 97 /\ c <= 122 THEN c - 97 + 26
  ELSE IF c >= 48 /\ c <= 57 THEN c - 48 + 52
  ELSE IF c = 45 THEN 62
  ELSE IF c = 95 THEN 63
  ELSE 64
\* the 6-bit value at position k of text, 0 beyond its end
Sextet(text, k) == IF k <= Len(text) THEN Base64UrlValue(text[k]) ELSE 0
\* text is the base64url encoding without padding of bytes
IsBase64UrlNoPad(text, bytes) ==
  /\ Len(text) = (4 * Len(bytes) + 2) \div 3
  /\ \A k \in DOMAIN text : Base64UrlValue(text[k]) < 64
  /\ \A i \in DOMAIN bytes :
       LET g == 4 * ((i - 1) \div 3)
           r == (i - 1) % 3
       IN bytes[i] =
            IF r = 0 THEN Sextet(text, g + 1) * 4 + Sextet(text, g + 2) \div 16
            ELSE IF r = 1
            THEN (Sextet(text, g + 2) % 16) * 16 + Sextet(text, g + 3) \div 4
            ELSE (Sextet(text, g + 3) % 4) * 64 + Sextet(text, g + 4)
  /\ Len(bytes) % 3 = 1 => Sextet(text, Len(text)) % 16 = 0
  /\ Len(bytes) % 3 = 2 => Sextet(text, Len(text)) % 4 = 0

(***************************************************************************)
(* C31: of every pair the generator returns, the verifier is the base64url *)
(* encoding without padding of the 32 random bytes, and the challenge is   *)
(* the base64url encoding without padding of the SHA-256 digest of the     *)
(* bytes of that verifier string.                                          *)
(***************************************************************************)
C31_Pkce ==
  [][ ReturnsAtOnce("generate") =>
        LET random == Unwrap(ret'.args.random)
            pkce == Unwrap(ret'.val)
        IN /\ ret'.out = "Ok"
           /\ Len(random) = 32
           /\ IsBase64UrlNoPad(pkce.verifier, random)
           /\ IsBase64UrlNoPad(pkce.challenge, Sha256(pkce.verifier)) ]_vars

\* a pair has been generated from random bytes that need both characters
\* '-' and '_' of the alphabet
C31_Witness ==
  /\ ret.op = "generate" /\ ret.out = "Ok"
  /\ Len(Unwrap(ret.val).verifier) = 43 /\ Len(Unwrap(ret.val).challenge) = 43
  /\ \E k \in DOMAIN Unwrap(ret.val).verifier : Unwrap(ret.val).verifier[k] = 45
  /\ \E k \in DOMAIN Unwrap(ret.val).verifier : Unwrap(ret.val).verifier[k] = 95

(***************************************************************************)
(* C32: no request is sent while the tracker is limited: in every step     *)
(* that puts a request on the wire, those that authenticate sends for the  *)
(* signing keys after the token exchange among them, the tracker as the    *)
(* step leaves it is not limited.                                          *)
(***************************************************************************)
C32_EveryRequestGated ==
  [][ SendsRequest => ~LimitedNotPast(error_limit_state', now) ]_vars

(***************************************************************************)
(* C33: a limit lasts until its expiry and no longer.  A call of           *)
(* update_spec, authenticate, refresh_access_token or query made while the *)
(* tracker holds remaining <= 0 with an expiry in the future returns       *)
(* ErrorLimited, sends nothing and leaves the tracker as it is; made after *)
(* the expiry has passed, with the same state still stored, it is not      *)
(* rejected with ErrorLimited, and the call itself does not touch the      *)
(* stored state.                                                           *)
(***************************************************************************)
\* the tracker holds remaining <= 0 and its expiry lies before t
LimitedInPast(state, t) ==
  /\ IsSome(state)
  /\ Unwrap(state).remaining_limit <= 0
  /\ Unwrap(state).expires_at_millis < t

C33_LimitExpires ==
  [][ \A op \in GatedOps :
        ReturnsAtOnce(op) \/ (\E t \in Tasks : Sends(t, op)) =>
          /\ LimitedInFuture(error_limit_state, now) =>
               /\ ReturnsAtOnce(op) /\ ret'.out = "ErrorLimited"
               /\ error_limit_state' = error_limit_state
          /\ LimitedInPast(error_limit_state, now) =>
               /\ ret'.out # "ErrorLimited"
               /\ error_limit_state' = error_limit_state ]_vars

\* update_spec, called with nothing else under way, has sent its request
\* although the tracker still holds the limit that has expired
C33_Witness ==
  /\ LimitedInPast(error_limit_state, now)
  /\ \E t \in Tasks : task[t].op = "update_spec" /\ task[t].pc = "update_spec:send"

(***************************************************************************)
(* Vocabulary of the header failures.                                      *)
(***************************************************************************)
HeaderOps == {"query", "update_spec", "refresh_access_token"}
\* this step handles a response, with both rate-limit headers, to op
HandlesBothHeaders(op) ==
  /\ Handles(op) /\ ret'.status # 0
  /\ IsSome(ret'.headers.remain) /\ IsSome(ret'.headers.reset)
\* the value is no decimal integer
NotAnInteger(value) == value \notin {"-1", "0", "2", "100"}
\* the session and the tracker are left as they are
NothingStored == esi' = esi /\ error_limit_state' = error_limit_state

(***************************************************************************)
(* C34 as stated: a response to query, update_spec or                      *)
(* refresh_access_token with both rate-limit headers, one of which is no   *)
(* integer, makes the operation fail with HeaderParseError naming that     *)
(* header, whatever the status, and leaves the tracker, the tokens and the *)
(* specification as they are.                                              *)
(***************************************************************************)
C34_Original ==
  [][ \A op \in HeaderOps :
        /\ HandlesBothHeaders(op)
        /\ NotAnInteger(Unwrap(ret'.headers.remain)) \/ NotAnInteger(Unwrap(ret'.headers.reset))
        => /\ ret'.out = "HeaderParseError"
           /\ ret'.val = IF NotAnInteger(Unwrap(ret'.headers.remain))
                         THEN Some("x-esi-error-limit-remain")
                         ELSE Some("x-esi-error-limit-reset")
           /\ NothingStored ]_vars

(***************************************************************************)
(* C34 amended: the two values are read in the order remain, reset, and    *)
(* the first that fails decides: a value that is no visible ASCII makes    *)
(* the operation fail with HeaderReadError, a readable value that is no    *)
(* integer with HeaderParseError naming its header; this whatever the      *)
(* status, and with the tracker, the tokens and the specification left as  *)
(* they are.                                                               *)
(***************************************************************************)
C34_HeaderErrors ==
  [][ \A op \in HeaderOps :
        /\ HandlesBothHeaders(op)
        /\ NotAnInteger(Unwrap(ret'.headers.remain)) \/ NotAnInteger(Unwrap(ret'.headers.reset))
        => /\ IF Unwrap(ret'.headers.remain) = "<0x80>"
              THEN ret'.out = "HeaderReadError"
              ELSE IF NotAnInteger(Unwrap(ret'.headers.remain))
              THEN /\ ret'.out = "HeaderParseError"
                   /\ ret'.val = Some("x-esi-error-limit-remain")
              ELSE IF Unwrap(ret'.headers.reset) = "<0x80>"
              THEN ret'.out = "HeaderReadError"
              ELSE /\ ret'.out = "HeaderParseError"
                   /\ ret'.val = Some("x-esi-error-limit-reset")
           /\ NothingStored ]_vars

\* a refresh answered with 200, a remaining count of 0 and a reset value
\* that is no integer has failed, nothing of the response being stored
C34_Witness ==
  /\ ret.op = "refresh_access_token" /\ ret.status = 200
  /\ ret.headers = Headers(Some("0"), Some("x"))
  /\ ret.out = "HeaderParseError" /\ ret.val = Some("x-esi-error-limit-reset")
  /\ error_limit_state = None
  /\ TokenState = << Some("at0"), Some(SeedExpiry), Some("rt0") >>

(***************************************************************************)
(* Vocabulary of the token responses.                                      *)
(***************************************************************************)
\* a token body with access_token and expires_in but no refresh_token
NoRefreshToken(body) ==
  IsSome(body.access_token) /\ IsSome(body.expires_in) /\ IsNone(body.refresh_token)
\* this step handles the response of the token endpoint to authenticate
AuthenticateAnswered ==
  /\ \E t \in Tasks : task[t].pc = "authenticate:send" /\ task'[t] # task[t]
  /\ ret'.status # 0

C36_BearerOnlyWhenAuthenticated ==
  [][ /\ QueryCalled("Public") =>
           /\ ret'.out \notin {"MissingAuthentication", "AccessTokenExpired"}
           /\ ~LimitedNotPast(error_limit_state, now) /\ ~ReturnsAtOnce("query") =>
                \E t \in Tasks : Sends(t, "query")
           /\ ~LimitedNotPast(error_limit_state, now) /\ ReturnsAtOnce("query") =>
                ret'.args.method = "" /\ ret'.out = "HttpMethodError"
      /\ \A t \in Tasks :
           Sends(t, "query") =>
             task'[t].req.authorization =
               IF task'[t].args.request_type = "Public" THEN None
               ELSE Some(<< "Bearer", Unwrap(esi.access_token) >>) ]_vars

\* a Public query is on the wire without the header, a token being stored
\* whose expiration has passed
C36_Witness ==
  /\ Expired
  /\ \E t \in Tasks : /\ task[t].pc = "query:send"
                       /\ task[t].args.request_type = "Public"
                       /\ task[t].req.authorization = None
  /\ \E t \in Tasks : /\ task[t].pc = "query:send"
                       /\ task[t].args.request_type = "Authenticated"
                       /\ task[t].req.authorization = Some(<< "Bearer", "at0" >>)

(***************************************************************************)
(* C37: query, is_error_limited, get_authorize_url and                     *)
(* get_endpoint_for_op_id leave every field of the session as it is,       *)
(* tokens, specification and configuration; the tracker changes only in    *)
(* the step of a query that handles a response; what get_authorize_url     *)
(* returns (state, verifier) is kept nowhere in the session.               *)
(***************************************************************************)
ReadOnlyOps == {"query", "is_error_limited", "get_authorize_url", "get_endpoint_for_op_id"}

C37_ReadOnlyFrame ==
  [][ \A op \in ReadOnlyOps :
        ReturnsAtOnce(op) \/ Handles(op) \/ (\E t \in Tasks : Sends(t, op)) =>
          /\ esi' = esi
          /\ TokenState' = TokenState
          /\ DOMAIN esi' = {"client_id", "client_secret", "callback_url", "application_auth",
                            "access_token", "access_expiration", "refresh_token", "spec"}
          /\ error_limit_state' # error_limit_state =>
               op = "query" /\ Handles(op) /\ ret'.status # 0 ]_vars

\* get_authorize_url has returned a verifier and a state on a session that
\* holds tokens and whose tracker a query has set
C37_Witness ==
  /\ ret.op = "get_authorize_url" /\ ret.out = "Ok"
  /\ IsSome(Unwrap(ret.val).pkce_verifier)
  /\ IsSome(error_limit_state)
  /\ TokenState = << Some("at0"), Some(SeedExpiry), Some("rt0") >>

(***************************************************************************)
(* C38: no step of any operation takes a stored access token away: once    *)
(* access_token is set it is set in every later state, after successful    *)
(* and after failed operations alike.                                      *)
(***************************************************************************)
C38_AccessTokenStays ==
  [][ IsSome(esi.access_token) => IsSome(esi'.access_token) ]_vars

\* a refresh has been refused by the token endpoint, the access token that
\* authenticate stored is still there
C38_Witness ==
  /\ ret.op = "refresh_access_token" /\ ret.out = "InvalidStatusCode"
  /\ esi.access_token = Some("at1")

(***************************************************************************)
(* C39: the conversions do not wrap: for every expires_in the expiration   *)
(* that is stored, and for every non-negative reset value the expiry that  *)
(* is stored, is computed (no panic) and is not earlier than the instant   *)
(* of the computation.                                                     *)
(***************************************************************************)
C39_NoWrap ==
  [][ ReturnsAtOnce("access_expiration") \/ ReturnsAtOnce("expires_at_millis") =>
        /\ ret'.out = "Ok"
        /\ ~LessI64(Unwrap(ret'.val), FromNat(now)) ]_vars
====
